---- MODULE Spec2Model ----
(***************************************************************************)
(* A model of package timeutils of futool4go (the fuzzy date/time string   *)
(* parser): ParseUnixTime, ParseDateTime, ParseDate, ParseTime,            *)
(* IsDateTimeFieldValid and the process-wide RequireDateTimeFieldValid;    *)
(* and of its Stopwatch.                                                   *)
(*                                                                         *)
(* A Go string is a sequence of one-character strings.  Offsets into a     *)
(* string are Go's: 0-based, and a span <<a, b>> is the half-open s[a:b].  *)
(* A *time.Time is Nil or a record of the fields the caller reads back; a  *)
(* time.Time built by time.Date is kept as its normalized civil fields in  *)
(* time.Local, taken to be a zone with one fixed offset.                   *)
(***************************************************************************)
EXTENDS Integers, Sequences, FiniteSets, TLC

VARIABLES
    RequireDateTimeFieldValid,  \* the package variable
    fn,                         \* the function of the call in progress, or "none"
    s,                          \* its string argument
    parts,                      \* how the caller composed s
    fields,                     \* the arguments of IsDateTimeFieldValid
    result                      \* what the call returned

VARIABLES
    sw,         \* a Stopwatch: isRunning, startTime, elapsedTime, records
    now,        \* the monotonic clock time.Now() and time.Since() read
    swCall,     \* the method of the Stopwatch a caller called last
    swBefore,   \* the Stopwatch as it was when that call began
    swResult,   \* what that call returned
    ran,        \* for how long the Stopwatch ran since it was last cleared
    laps        \* ran, at each call of Record since then that found it running

VARIABLES
    pc,         \* of each goroutine: the method it is in and where in it
    lock,       \* s.lock: the goroutine that holds it for writing, or 0,
                \* and the goroutines that hold it for reading
    locals,     \* of each goroutine: its local variables and what it returned
    callsLeft   \* of each goroutine: how many more calls it makes

VARIABLES
    checksum    \* a call of GetFileChecksum: its arguments, where it is, the
                \* calls it made of its three callbacks, what it returned

VARIABLES
    walk        \* a WalkOption, how often it was asked, and the last call of
                \* ShouldQuitForNonRecursive or GetDirStatistics with it

VARIABLES
    filter,     \* a Filter, the file IsMatched was called on, what it returned
    version     \* the arguments of CompareVersions and what it returned

timeVars == <<RequireDateTimeFieldValid, fn, s, parts, fields, result>>

swVars == <<sw, now, swCall, swBefore, swResult, ran, laps>>

goVars == <<pc, lock, locals, callsLeft>>

fileVars == <<checksum>>

\* the state of the packages whose functions keep none between calls, or
\* keep it in a value of the caller
callerVars == <<walk, filter, version>>

\* what no method of Stopwatch assigns
notStopwatch == <<timeVars, fileVars, callerVars>>

\* what the functions of the parser leave alone
notTimeVars == <<swVars, goVars, fileVars, callerVars>>

\* what the calls of one goroutine on a Stopwatch leave alone
notSwVars == <<notStopwatch, goVars>>

\* what GetFileChecksum leaves alone
notFileVars == <<timeVars, swVars, goVars, callerVars>>

\* what the functions on a directory leave alone
notWalkVars == <<timeVars, swVars, goVars, fileVars, filter, version>>

\* what Filter.IsMatched leaves alone
notFilterVars == <<timeVars, swVars, goVars, fileVars, walk, version>>

\* what CompareVersions leaves alone
notVersionVars == <<timeVars, swVars, goVars, fileVars, walk, filter>>

vars == <<RequireDateTimeFieldValid, fn, s, parts, fields, result,
          sw, now, swCall, swBefore, swResult, ran, laps,
          pc, lock, locals, callsLeft, checksum, walk, filter, version>>

\* a nil pointer, a nil error
Nil == [nil |-> TRUE]

\* fmt.Errorf(...): only the kind of the error is kept
Errorf(kind) == [error |-> kind]

(***************************************************************************)
(* Bounds of the model.                                                    *)
(***************************************************************************)
\* the longest prefix and suffix noise put around a digit run
MaxNoiseLen == 2
\* the longest suffix noise
MaxSuffixLen == 1
\* the longest digit run handed to ParseUnixTime
MaxRunLen == 14
\* the last reading of the clock
MaxTime == 4
\* the most entries Record is let append
MaxRecords == 3
\* the goroutines that share a Stopwatch
NumGoroutines == 2
\* the calls each of them makes
MaxCalls == 2

\* the longest file, in bytes
MaxFileLen == 4

\* the largest headerSize
MaxHeaderSize == 3

\* the longest buffer
MaxBufLen == 4

\* the most entries of a directory
MaxEntries == 3

\* the largest size of a file in a directory
MaxSize == 2

\* how often a WalkOption is asked before no further call is made with it
MaxAsked == 3

\* the most patterns in Filter.Include
MaxPatterns == 2

\* the most sub-versions of a version
MaxSubVersions == 2

(***************************************************************************)
(* Strings and package regexp.                                             *)
(***************************************************************************)
LF == "\n"

Digit == {"0", "1", "2", "3", "4", "5", "6", "7", "8", "9"}

DigitValue(c) ==
    CASE c = "0" -> 0 [] c = "1" -> 1 [] c = "2" -> 2 [] c = "3" -> 3
      [] c = "4" -> 4 [] c = "5" -> 5 [] c = "6" -> 6 [] c = "7" -> 7
      [] c = "8" -> 8 [] c = "9" -> 9

\* s[a:b]
Slice(str, a, b) == SubSeq(str, a + 1, b)

\* \d{n} at offset i
IsDigits(str, i, n) ==
    /\ i + n <= Len(str)
    /\ \A k \in (i + 1)..(i + n) : str[k] \in Digit

\* one character of a class at offset i
IsIn(str, i, class) == i < Len(str) /\ str[i + 1] \in class

\* "." matches every character but a line feed: the offsets a leading ^.*?
\* can stop at, in the order it tries them
LazyStarts(str) ==
    IF \E k \in 1..Len(str) : str[k] = LF
    THEN 0..((CHOOSE k \in 1..Len(str) :
                 str[k] = LF /\ \A j \in 1..(k - 1) : str[j] # LF) - 1)
    ELSE 0..Len(str)

\* where a trailing greedy .* started at offset i ends
DotStarEnd(str, i) ==
    IF \E k \in (i + 1)..Len(str) : str[k] = LF
    THEN (CHOOSE k \in (i + 1)..Len(str) :
              str[k] = LF /\ \A j \in (i + 1)..(k - 1) : str[j] # LF) - 1
    ELSE Len(str)

\* the element of a set of one element.  The({F(x) : x \in {e}}) is F(e)
\* with e worked out once, as a local variable of the code is
The(S) == CHOOSE x \in S : TRUE

\* the span of a group that took no part in the match
Unmatched == <<-1, -1>>

\* the value of a run of digits
RECURSIVE DigitsValue(_)
DigitsValue(str) ==
    IF str = <<>> THEN 0
    ELSE 10 * DigitsValue(SubSeq(str, 1, Len(str) - 1)) + DigitValue(str[Len(str)])

\* strconv.Atoi and strconv.ParseInt(str, 10, 64) of an unsigned string: on
\* "" and on a string that is not all digits both return 0 and an error,
\* which the callers drop
Atoi(str) ==
    IF str # <<>> /\ \A k \in 1..Len(str) : str[k] \in Digit
    THEN DigitsValue(str)
    ELSE 0

\* the submatches of a match given by its spans; none for no match
Submatches(str, loc) ==
    [k \in 1..Len(loc) |->
        IF loc[k] = Unmatched THEN <<>> ELSE Slice(str, loc[k][1], loc[k][2])]

\* Go's subs[k]
Sub(subs, k) == subs[k + 1]

(***************************************************************************)
(* regexUnixTime  ^.*?(\d{1,10})(\d{3})?.*                                 *)
(***************************************************************************)
\* the greedy \d{1,10} at offset p
UnixSecondsLen(str, p) ==
    CHOOSE n \in 1..10 :
        /\ IsDigits(str, p, n)
        /\ \A m \in (n + 1)..10 : ~IsDigits(str, p, m)

regexUnixTimeAt(str, p) ==
    LET e1 == p + UnixSecondsLen(str, p)
        ms == IsDigits(str, e1, 3)
        e2 == IF ms THEN e1 + 3 ELSE e1
    IN  << <<0, DotStarEnd(str, e2)>>,
           <<p, e1>>,
           IF ms THEN <<e1, e2>> ELSE Unmatched >>

regexUnixTime(str) ==
    LET starts == {p \in LazyStarts(str) : IsDigits(str, p, 1)}
    IN  IF starts = {} THEN <<>>
        ELSE regexUnixTimeAt(str, CHOOSE p \in starts : \A q \in starts : p <= q)

(***************************************************************************)
(* ParseUnixTime                                                           *)
(***************************************************************************)
\* time.Unix(sec, nsec), nsec within a second
TimeUnix(sec, nsec) == [unix |-> sec, nanosecond |-> nsec]

ParseUnixTime(str) ==
    LET subs  == Submatches(str, regexUnixTime(str))
        count == Len(subs)
    IN  IF count <= 1 THEN Nil
        ELSE LET second     == Atoi(Sub(subs, 1))
                 nanosecond == IF count > 2
                               THEN Atoi(Sub(subs, 2)) * 1000000
                               ELSE 0
             IN  TimeUnix(second, nanosecond)

(***************************************************************************)
(* IsDateTimeFieldValid: Nil, or the error's kind                          *)
(***************************************************************************)
\* the validator with the Julian leap year rule (no century exception)
IsDateTimeFieldValidJulian(year, month, day, hour, minute, second) ==
    IF ~RequireDateTimeFieldValid THEN Nil
    ELSE IF month < 1 \/ month > 12 THEN Errorf("invalid month")
    ELSE IF hour < 0 \/ hour > 23 THEN Errorf("invalid hour")
    ELSE IF minute < 0 \/ minute > 59 THEN Errorf("invalid minute")
    ELSE IF second < 0 \/ second > 59 THEN Errorf("invalid second")
    ELSE IF day < 1 \/ day > 31 THEN Errorf("invalid day")
    ELSE IF month \in {4, 6, 9, 11} /\ day > 30 THEN Errorf("invalid day")
    ELSE IF month = 2
         THEN IF year % 4 = 0
              THEN IF day > 29 THEN Errorf("invalid day for leap year") ELSE Nil
              ELSE IF day > 28 THEN Errorf("invalid day") ELSE Nil
    ELSE Nil

IsDateTimeFieldValid(year, month, day, hour, minute, second) ==
    IF ~RequireDateTimeFieldValid THEN Nil
    ELSE IF month < 1 \/ month > 12 THEN Errorf("invalid month")
    ELSE IF hour < 0 \/ hour > 23 THEN Errorf("invalid hour")
    ELSE IF minute < 0 \/ minute > 59 THEN Errorf("invalid minute")
    ELSE IF second < 0 \/ second > 59 THEN Errorf("invalid second")
    ELSE IF day < 1 \/ day > 31 THEN Errorf("invalid day")
    ELSE IF month \in {4, 6, 9, 11} /\ day > 30 THEN Errorf("invalid day")
    ELSE IF month = 2
         THEN IF year % 4 = 0 /\ (year % 100 # 0 \/ year % 400 = 0)
              THEN IF day > 29 THEN Errorf("invalid day for leap year") ELSE Nil
              ELSE IF day > 28 THEN Errorf("invalid day") ELSE Nil
    ELSE Nil

(***************************************************************************)
(* The character classes of the date and time grammars.  Inside [...] a    *)
(* "|" is a character like any other.                                      *)
(***************************************************************************)
\* [-|_|\.|]
DateSepClass == {"-", "|", "_", "."}

\* [-|_|\.| |T]
BoundaryClass == {"-", "|", "_", ".", " ", "T"}

\* [-|_|\.|\:|]
TimeSepClass == {"-", "|", "_", ".", ":"}

\* \.
DotClass == {"."}

\* the widths a greedy \d{1,2} tries, longest first
OneOrTwo == <<2, 1>>

\* the first candidate that fits, in the order a backtracking matcher tries
\* them; fits[i] tells whether candidate i does
FirstIndex(fits) ==
    IF \E i \in DOMAIN fits : fits[i]
    THEN CHOOSE i \in DOMAIN fits : fits[i] /\ \A j \in 1..(i - 1) : ~fits[j]
    ELSE 0

\* the greatest offset a ^.* would stop at so that the rest matches
LastStart(str, matchesAt) ==
    LET starts == {p \in LazyStarts(str) : matchesAt[p]}
    IN  IF starts = {} THEN -1
        ELSE CHOOSE p \in starts : \A q \in starts : q <= p

\* the least offset a lazy ^.*? can stop at so that the rest matches
FirstStart(str, matchesAt) ==
    LET starts == {p \in LazyStarts(str) : matchesAt[p]}
    IN  IF starts = {} THEN -1
        ELSE CHOOSE p \in starts : \A q \in starts : p <= q

(***************************************************************************)
(* regexDateTimeHasSep                                                     *)
(*   ^.*?(\d{4})[-|_|\.|](\d{1,2})[-|_|\.|](\d{1,2})[-|_|\.| |T]           *)
(*   (\d{1,2})[-|_|\.|\:|](\d{2})([-|_|\.|\:|](\d{2})(\.(\d{3}))?)?.*      *)
(***************************************************************************)
\* ([-|_|\.|\:|](\d{2})(\.(\d{3}))?)? at offset e: the spans of the four
\* groups: the seconds with their separator, the seconds, the milliseconds
\* with their dot, the milliseconds.  First the same with milliseconds of
\* any width, (\.(\d{1,3}))?
SepSecondsAtAnyWidth(str, e) ==
    IF IsIn(str, e, TimeSepClass) /\ IsDigits(str, e + 1, 2)
    THEN IF IsIn(str, e + 3, DotClass) /\ IsDigits(str, e + 4, 1)
         THEN LET n == CHOOSE k \in 1..3 :
                           /\ IsDigits(str, e + 4, k)
                           /\ \A j \in (k + 1)..3 : ~IsDigits(str, e + 4, j)
              IN  << <<e, e + 4 + n>>, <<e + 1, e + 3>>,
                     <<e + 3, e + 4 + n>>, <<e + 4, e + 4 + n>> >>
         ELSE << <<e, e + 3>>, <<e + 1, e + 3>>, Unmatched, Unmatched >>
    ELSE << Unmatched, Unmatched, Unmatched, Unmatched >>

SepSecondsAt(str, e) ==
    IF IsIn(str, e, TimeSepClass) /\ IsDigits(str, e + 1, 2)
    THEN IF IsIn(str, e + 3, DotClass) /\ IsDigits(str, e + 4, 3)
         THEN << <<e, e + 7>>, <<e + 1, e + 3>>, <<e + 3, e + 7>>, <<e + 4, e + 7>> >>
         ELSE << <<e, e + 3>>, <<e + 1, e + 3>>, Unmatched, Unmatched >>
    ELSE << Unmatched, Unmatched, Unmatched, Unmatched >>

\* the end of what the groups of a tail took from offset e on
TailEnd(tail, e) == IF tail[1] = Unmatched THEN e ELSE tail[1][2]

\* (\d{1,2})[-|_|\.|\:|](\d{2}) at offset h with an hour of hl digits
SepTimeAt(str, h, hl) ==
    /\ IsDigits(str, h, hl)
    /\ IsIn(str, h + hl, TimeSepClass)
    /\ IsDigits(str, h + hl + 1, 2)

\* (\d{4})[-|_|\.|](\d{1,2})[-|_|\.|](\d{1,2}) at offset p with a month of
\* ml digits and a day of dl digits
SepDateAt(str, p, ml, dl) ==
    /\ IsDigits(str, p, 4)
    /\ IsIn(str, p + 4, DateSepClass)
    /\ IsDigits(str, p + 5, ml)
    /\ IsIn(str, p + 5 + ml, DateSepClass)
    /\ IsDigits(str, p + 6 + ml, dl)

\* the widths of month, day and hour, in the order the matcher tries them
DateTimeWidths ==
    << <<2, 2, 2>>, <<2, 2, 1>>, <<2, 1, 2>>, <<2, 1, 1>>,
       <<1, 2, 2>>, <<1, 2, 1>>, <<1, 1, 2>>, <<1, 1, 1>> >>

DateTimeHasSepFits(str, p, w) ==
    /\ SepDateAt(str, p, w[1], w[2])
    /\ IsIn(str, p + 6 + w[1] + w[2], BoundaryClass)
    /\ SepTimeAt(str, p + 7 + w[1] + w[2], w[3])

regexDateTimeHasSepAt(str, p) ==
    LET fits == [i \in 1..8 |->
                    DateTimeHasSepFits(str, p, DateTimeWidths[i])]
        w    == DateTimeWidths[FirstIndex(fits)]
        mo   == p + 5
        d    == mo + w[1] + 1
        h    == d + w[2] + 1
        mi   == h + w[3] + 1
        e    == mi + 2
        tail == SepSecondsAt(str, e)
    IN  << <<0, DotStarEnd(str, TailEnd(tail, e))>>,
           <<p, p + 4>>, <<mo, mo + w[1]>>, <<d, d + w[2]>>,
           <<h, h + w[3]>>, <<mi, e>> >> \o tail

regexDateTimeHasSep(str) ==
    LET at == [p \in LazyStarts(str) |->
                  \E i \in 1..8 : DateTimeHasSepFits(str, p, DateTimeWidths[i])]
        p     == FirstStart(str, at)
    IN  IF p < 0 THEN <<>> ELSE regexDateTimeHasSepAt(str, p)

(***************************************************************************)
(* regexDateTimeNoSep                                                      *)
(*   ^.*?(\d{4})(\d{2})(\d{2})[-|_|\.| |T]?                                *)
(*   (\d{2})(\d{2})((\d{2})(\.?(\d{3}))?)?.*                               *)
(***************************************************************************)
\* ((\d{2})(\.?(\d{3}))?)? at offset e
NoSepSecondsAt(str, e) ==
    IF IsDigits(str, e, 2)
    THEN IF IsIn(str, e + 2, DotClass) /\ IsDigits(str, e + 3, 3)
         THEN << <<e, e + 6>>, <<e, e + 2>>, <<e + 2, e + 6>>, <<e + 3, e + 6>> >>
         ELSE IF IsDigits(str, e + 2, 3)
         THEN << <<e, e + 5>>, <<e, e + 2>>, <<e + 2, e + 5>>, <<e + 2, e + 5>> >>
         ELSE << <<e, e + 2>>, <<e, e + 2>>, Unmatched, Unmatched >>
    ELSE << Unmatched, Unmatched, Unmatched, Unmatched >>

\* the width the greedy [-|_|\.| |T]? takes at offset b before (\d{2})(\d{2})
BoundaryWidths == <<1, 0>>

DateTimeNoSepFits(str, p, bl) ==
    /\ IsDigits(str, p, 8)
    /\ (bl = 1 => IsIn(str, p + 8, BoundaryClass))
    /\ IsDigits(str, p + 8 + bl, 4)

regexDateTimeNoSepAt(str, p) ==
    LET fits == [i \in 1..2 |->
                    DateTimeNoSepFits(str, p, BoundaryWidths[i])]
        h    == p + 8 + BoundaryWidths[FirstIndex(fits)]
        e    == h + 4
        tail == NoSepSecondsAt(str, e)
    IN  << <<0, DotStarEnd(str, TailEnd(tail, e))>>,
           <<p, p + 4>>, <<p + 4, p + 6>>, <<p + 6, p + 8>>,
           <<h, h + 2>>, <<h + 2, e>> >> \o tail

regexDateTimeNoSep(str) ==
    LET at == [p \in LazyStarts(str) |->
                  \E i \in 1..2 : DateTimeNoSepFits(str, p, BoundaryWidths[i])]
        p     == FirstStart(str, at)
    IN  IF p < 0 THEN <<>> ELSE regexDateTimeNoSepAt(str, p)

(***************************************************************************)
(* regexDateHasSep  ^.*?(\d{4})[-|_|\.|](\d{1,2})[-|_|\.|](\d{1,2}).*      *)
(* regexDateNoSep   ^.*?(\d{4})(\d{2})(\d{2}).*                            *)
(***************************************************************************)
\* the widths of month and day, in the order the matcher tries them
DateWidths == << <<2, 2>>, <<2, 1>>, <<1, 2>>, <<1, 1>> >>

regexDateHasSepAt(str, p) ==
    LET fits == [i \in 1..4 |->
                    SepDateAt(str, p, DateWidths[i][1], DateWidths[i][2])]
        w  == DateWidths[FirstIndex(fits)]
        mo == p + 5
        d  == mo + w[1] + 1
    IN  << <<0, DotStarEnd(str, d + w[2])>>,
           <<p, p + 4>>, <<mo, mo + w[1]>>, <<d, d + w[2]>> >>

regexDateHasSep(str) ==
    LET at == [p \in LazyStarts(str) |->
                  \E i \in 1..4 : SepDateAt(str, p, DateWidths[i][1], DateWidths[i][2])]
        p     == FirstStart(str, at)
    IN  IF p < 0 THEN <<>> ELSE regexDateHasSepAt(str, p)

regexDateNoSep(str) ==
    LET at == [p \in LazyStarts(str) |-> IsDigits(str, p, 8)]
        p     == FirstStart(str, at)
    IN  IF p < 0 THEN <<>>
        ELSE << <<0, DotStarEnd(str, p + 8)>>,
                <<p, p + 4>>, <<p + 4, p + 6>>, <<p + 6, p + 8>> >>

(***************************************************************************)
(* regexTimeHasSep                                                         *)
(*   ^.*?(\d{1,2})[-|_|\.|\:|](\d{2})([-|_|\.|\:|](\d{2})(\.(\d{3}))?)?.*  *)
(* regexTimeNoSep   ^.*?(\d{2})(\d{2})((\d{2})(\.?(\d{3}))?)?.*            *)
(***************************************************************************)
regexTimeHasSepAt(str, p) ==
    LET fits == [i \in 1..2 |->
                    SepTimeAt(str, p, OneOrTwo[i])]
        hl   == OneOrTwo[FirstIndex(fits)]
        mi   == p + hl + 1
        e    == mi + 2
        tail == SepSecondsAt(str, e)
    IN  << <<0, DotStarEnd(str, TailEnd(tail, e))>>,
           <<p, p + hl>>, <<mi, e>> >> \o tail

regexTimeHasSep(str) ==
    LET at == [p \in LazyStarts(str) |->
                  \E i \in 1..2 : SepTimeAt(str, p, OneOrTwo[i])]
        p     == FirstStart(str, at)
    IN  IF p < 0 THEN <<>> ELSE regexTimeHasSepAt(str, p)

regexTimeNoSep(str) ==
    LET at == [p \in LazyStarts(str) |-> IsDigits(str, p, 4)]
        p     == FirstStart(str, at)
    IN  IF p < 0 THEN <<>>
        ELSE LET tail == NoSepSecondsAt(str, p + 4)
             IN  << <<0, DotStarEnd(str, TailEnd(tail, p + 4))>>,
                    <<p, p + 2>>, <<p + 2, p + 4>> >> \o tail

\* regex.FindStringSubmatchIndex(s), as spans
FindStringSubmatchIndex(regex, str) ==
    CASE regex = "regexDateTimeHasSep" -> regexDateTimeHasSep(str)
      [] regex = "regexDateTimeNoSep"  -> regexDateTimeNoSep(str)
      [] regex = "regexDateHasSep"     -> regexDateHasSep(str)
      [] regex = "regexDateNoSep"      -> regexDateNoSep(str)
      [] regex = "regexTimeHasSep"     -> regexTimeHasSep(str)
      [] regex = "regexTimeNoSep"      -> regexTimeNoSep(str)

\* regex.FindStringSubmatch(s)
FindStringSubmatch(regex, str) ==
    The({Submatches(str, loc) : loc \in {FindStringSubmatchIndex(regex, str)}})

(***************************************************************************)
(* time.Date(year, month, day, hour, min, sec, nsec, time.Local): fields   *)
(* outside their ranges are normalized, each overflowing into the next.    *)
(***************************************************************************)
IsLeap(year) == year % 4 = 0 /\ (year % 100 # 0 \/ year % 400 = 0)

DaysIn(year, month) ==
    IF month = 2 THEN (IF IsLeap(year) THEN 29 ELSE 28)
    ELSE IF month \in {4, 6, 9, 11} THEN 30 ELSE 31

\* <<year, month, day>> with day brought into the month
NormDay[year \in Int, month \in Int, day \in Int] ==
    IF day < 1
    THEN LET y == IF month = 1 THEN year - 1 ELSE year
             m == IF month = 1 THEN 12 ELSE month - 1
         IN  NormDay[y, m, day + DaysIn(y, m)]
    ELSE IF day > DaysIn(year, month)
    THEN NormDay[IF month = 12 THEN year + 1 ELSE year,
                 IF month = 12 THEN 1 ELSE month + 1,
                 day - DaysIn(year, month)]
    ELSE <<year, month, day>>

\* time.Date with a month over 12 taken modulo 12 into the next year
TimeDateModulo(year, month, day, hour, min, sec, nsec) ==
    LET y1 == IF month > 12 THEN year + 1 ELSE year
        m1 == IF month > 12 THEN month % 12 ELSE month
        s1 == sec + (nsec \div 1000000000)
        n1 == nsec % 1000000000
        mi1 == min + (s1 \div 60)
        h1 == hour + (mi1 \div 60)
        d1 == day + (h1 \div 24)
        ymd == IF m1 \in 1..12 THEN NormDay[y1, m1, d1] ELSE <<y1, m1, d1>>
    IN  [year |-> ymd[1], month |-> ymd[2], day |-> ymd[3],
         hour |-> h1 % 24, minute |-> mi1 % 60, second |-> s1 % 60,
         nanosecond |-> n1]

TimeDate(year, month, day, hour, min, sec, nsec) ==
    LET m0 == month - 1
        y1 == year + (m0 \div 12)
        m1 == (m0 % 12) + 1
        s1 == sec + (nsec \div 1000000000)
        n1 == nsec % 1000000000
        mi1 == min + (s1 \div 60)
        h1 == hour + (mi1 \div 60)
        d1 == day + (h1 \div 24)
        ymd == NormDay[y1, m1, d1]
    IN  [year |-> ymd[1], month |-> ymd[2], day |-> ymd[3],
         hour |-> h1 % 24, minute |-> mi1 % 60, second |-> s1 % 60,
         nanosecond |-> n1]

(***************************************************************************)
(* ParseDateTime, ParseDate, ParseTime                                     *)
(***************************************************************************)
\* the closure parse of ParseDate
ParseDateParse(str, regex) ==
    The({ IF Len(subs) = 0 THEN Nil
          ELSE The({ IF IsDateTimeFieldValid(year, m, day, 0, 0, 0) # Nil
                     THEN Nil
                     ELSE TimeDate(year, m, day, 0, 0, 0, 0) :
                       year \in {Atoi(Sub(subs, 1))},
                       m    \in {Atoi(Sub(subs, 2))},
                       day  \in {Atoi(Sub(subs, 3))} }) :
            subs \in {FindStringSubmatch(regex, str)} })

\* ParseDate with the two grammars tried in the other order
ParseDateNoSepFirst(str) ==
    LET res == ParseDateParse(str, "regexDateNoSep")
    IN  IF res # Nil THEN res
        ELSE ParseDateParse(str, "regexDateHasSep")

ParseDate(str) ==
    LET res == ParseDateParse(str, "regexDateHasSep")
    IN  IF res # Nil THEN res
        ELSE ParseDateParse(str, "regexDateNoSep")

\* the closure parse of ParseDateTime without the call of the validator
ParseDateTimeParseUnchecked(str, regex) ==
    LET subs == FindStringSubmatch(regex, str)
    IN  IF Len(subs) = 0 THEN Nil
        ELSE TimeDate(Atoi(Sub(subs, 1)), Atoi(Sub(subs, 2)), Atoi(Sub(subs, 3)),
                      Atoi(Sub(subs, 4)), Atoi(Sub(subs, 5)), Atoi(Sub(subs, 7)),
                      Atoi(Sub(subs, 9)) * 1000000)

\* the closure parse of ParseDateTime reading the milliseconds from the
\* group that holds them with their dot
ParseDateTimeParseDotted(str, regex) ==
    LET subs == FindStringSubmatch(regex, str)
    IN  IF Len(subs) = 0 THEN Nil
        ELSE LET year   == Atoi(Sub(subs, 1))
                 m      == Atoi(Sub(subs, 2))
                 day    == Atoi(Sub(subs, 3))
                 hour   == Atoi(Sub(subs, 4))
                 minute == Atoi(Sub(subs, 5))
                 second == Atoi(Sub(subs, 7))
             IN  IF IsDateTimeFieldValid(year, m, day, hour, minute, second) # Nil
                 THEN Nil
                 ELSE TimeDate(year, m, day, hour, minute, second,
                               Atoi(Sub(subs, 8)) * 1000000)

\* the closure parse of ParseDateTime
ParseDateTimeParse(str, regex) ==
    The({ IF Len(subs) = 0 THEN Nil
          ELSE The({ IF IsDateTimeFieldValid(year, m, day, hour, minute, second) # Nil
                     THEN Nil
                     ELSE The({ TimeDate(year, m, day, hour, minute, second,
                                         nanosecond) :
                                  nanosecond \in {millisecond * 1000000} }) :
                       year        \in {Atoi(Sub(subs, 1))},
                       m           \in {Atoi(Sub(subs, 2))},
                       day         \in {Atoi(Sub(subs, 3))},
                       hour        \in {Atoi(Sub(subs, 4))},
                       minute      \in {Atoi(Sub(subs, 5))},
                       second      \in {Atoi(Sub(subs, 7))},
                       millisecond \in {Atoi(Sub(subs, 9))} }) :
            subs \in {FindStringSubmatch(regex, str)} })

\* ParseDateTime with the two grammars tried in the other order
ParseDateTimeNoSepFirst(str) ==
    LET res == ParseDateTimeParse(str, "regexDateTimeNoSep")
    IN  IF res # Nil THEN res
        ELSE ParseDateTimeParse(str, "regexDateTimeHasSep")

\* ParseDateTime with the grammars of a date alone tried last
ParseDateTimeOrDate(str) ==
    LET res == ParseDateTimeParse(str, "regexDateTimeHasSep")
    IN  IF res # Nil THEN res
        ELSE LET res2 == ParseDateTimeParse(str, "regexDateTimeNoSep")
             IN  IF res2 # Nil THEN res2 ELSE ParseDate(str)

ParseDateTime(str) ==
    LET res == ParseDateTimeParse(str, "regexDateTimeHasSep")
    IN  IF res # Nil THEN res
        ELSE ParseDateTimeParse(str, "regexDateTimeNoSep")

\* the closure parse of ParseTime building its timestamp on 1 January 1970
ParseTimeParseEpoch(str, regex) ==
    LET subs == FindStringSubmatch(regex, str)
    IN  IF Len(subs) = 0 THEN Nil
        ELSE LET hour   == Atoi(Sub(subs, 1))
                 minute == Atoi(Sub(subs, 2))
                 second == Atoi(Sub(subs, 4))
             IN  IF IsDateTimeFieldValid(0, 1, 1, hour, minute, second) # Nil
                 THEN Nil
                 ELSE TimeDate(1970, 1, 1, hour, minute, second,
                               Atoi(Sub(subs, 6)) * 1000000)

\* the closure parse of ParseTime
ParseTimeParse(str, regex) ==
    The({ IF Len(subs) = 0 THEN Nil
          ELSE The({ IF IsDateTimeFieldValid(0, 1, 1, hour, minute, second) # Nil
                     THEN Nil
                     ELSE TimeDate(0, 1, 1, hour, minute, second, nanosecond) :
                       hour       \in {Atoi(Sub(subs, 1))},
                       minute     \in {Atoi(Sub(subs, 2))},
                       second     \in {Atoi(Sub(subs, 4))},
                       nanosecond \in {Atoi(Sub(subs, 6)) * 1000000} }) :
            subs \in {FindStringSubmatch(regex, str)} })

ParseTime(str) ==
    LET res == ParseTimeParse(str, "regexTimeHasSep")
    IN  IF res # Nil THEN res
        ELSE ParseTimeParse(str, "regexTimeNoSep")

(***************************************************************************)
(* The callers' inputs.                                                    *)
(***************************************************************************)
\* every string over the alphabet of length at most n
RECURSIVE StringsUpTo(_, _)
StringsUpTo(alphabet, n) ==
    IF n = 0 THEN {<<>>}
    ELSE LET shorter == StringsUpTo(alphabet, n - 1)
         IN  shorter \cup {Append(x, c) : x \in shorter, c \in alphabet}

\* noise around a digit run: a letter, a digit, a separator, a line feed
NoiseChar == {"a", "1", ".", LF}

Noise == StringsUpTo(NoiseChar, MaxNoiseLen)

SuffixNoise == StringsUpTo(NoiseChar, MaxSuffixLen)

\* the digit runs: the leading digits of two epoch timestamps
UnixDigits ==
    { <<"1","5","5","3","8","6","7","5","0","9","7","5","7","1","2">>,
      <<"0","0","1","5","5","3","8","6","7","5","0","9","0","0","7">> }

UnixRun == {SubSeq(d, 1, n) : d \in UnixDigits, n \in 0..MaxRunLen}

UnixInputs ==
    {[prefix |-> p, run |-> r, suffix |-> x] :
        p \in Noise, r \in UnixRun, x \in SuffixNoise}

FieldInputs ==
    [year : {-4, 1900, 2000, 2010, 2012}, month : 0..13,
     day : {0, 1, 28, 29, 30, 31, 32}, hour : {-1, 0, 23, 24},
     minute : {-1, 59, 60}, second : {-1, 59, 60}]

(***************************************************************************)
(* The strings handed to ParseDateTime, ParseDate and ParseTime: a caller  *)
(* writes a date, a time or both in a shape (separators and widths) and    *)
(* puts noise around it.  Absent parts are empty.                          *)
(***************************************************************************)
DigitChar(d) ==
    CASE d = 0 -> "0" [] d = 1 -> "1" [] d = 2 -> "2" [] d = 3 -> "3"
      [] d = 4 -> "4" [] d = 5 -> "5" [] d = 6 -> "6" [] d = 7 -> "7"
      [] d = 8 -> "8" [] d = 9 -> "9"

\* n written in w digits, zero-padded
RECURSIVE Pad(_, _)
Pad(n, w) == IF w = 0 THEN <<>> ELSE Append(Pad(n \div 10, w - 1), DigitChar(n % 10))

\* n written in two digits, or in one when the shape is narrow and n allows
Field(n, wide) == IF wide \/ n > 9 THEN Pad(n, 2) ELSE Pad(n, 1)

Render(in) ==
    in.prefix \o in.year \o in.ds1 \o in.month \o in.ds2 \o in.day \o in.bnd
      \o in.hour \o in.ts1 \o in.minute \o in.ts2 \o in.second \o in.msep
      \o in.frac \o in.suffix

ShapeSepWide ==
    [ds1 |-> <<"-">>, ds2 |-> <<"-">>, bnd |-> <<" ">>, ts1 |-> <<":">>,
     ts2 |-> <<":">>, msep |-> <<".">>, wide |-> TRUE]

ShapeSepNarrow ==
    [ds1 |-> <<"_">>, ds2 |-> <<".">>, bnd |-> <<"T">>, ts1 |-> <<"-">>,
     ts2 |-> <<"_">>, msep |-> <<".">>, wide |-> FALSE]

ShapeNoSep ==
    [ds1 |-> <<>>, ds2 |-> <<>>, bnd |-> <<>>, ts1 |-> <<>>,
     ts2 |-> <<>>, msep |-> <<>>, wide |-> TRUE]

ShapeNoSepDot ==
    [ds1 |-> <<>>, ds2 |-> <<>>, bnd |-> <<".">>, ts1 |-> <<>>,
     ts2 |-> <<>>, msep |-> <<".">>, wide |-> TRUE]

SepShapes == {ShapeSepWide, ShapeSepNarrow}
NoSepShapes == {ShapeNoSep, ShapeNoSepDot}
Shapes == SepShapes \cup NoSepShapes

NoDate == <<>>
NoTime == <<>>
\* stands for a second that is left out
None == 0 - 1

\* a date <<year, month, day>> and a time <<hour, minute, second, frac>>
\* (second None and frac "" when left out) written in a shape
Compose(prefix, shape, date, time, suffix) ==
    LET hasDate == date # NoDate
        hasTime == time # NoTime
        hasSec  == hasTime /\ time[3] # None
        hasFrac == hasSec /\ time[4] # <<>>
    IN  [prefix |-> prefix,
         year   |-> IF hasDate THEN Pad(date[1], 4) ELSE <<>>,
         ds1    |-> IF hasDate THEN shape.ds1 ELSE <<>>,
         month  |-> IF hasDate THEN Field(date[2], shape.wide) ELSE <<>>,
         ds2    |-> IF hasDate THEN shape.ds2 ELSE <<>>,
         day    |-> IF hasDate THEN Field(date[3], shape.wide) ELSE <<>>,
         bnd    |-> IF hasDate /\ hasTime THEN shape.bnd ELSE <<>>,
         hour   |-> IF hasTime THEN Field(time[1], shape.wide) ELSE <<>>,
         ts1    |-> IF hasTime THEN shape.ts1 ELSE <<>>,
         minute |-> IF hasTime THEN Pad(time[2], 2) ELSE <<>>,
         ts2    |-> IF hasSec THEN shape.ts2 ELSE <<>>,
         second |-> IF hasSec THEN Pad(time[3], 2) ELSE <<>>,
         msep   |-> IF hasFrac THEN shape.msep ELSE <<>>,
         frac   |-> IF hasFrac THEN time[4] ELSE <<>>,
         suffix |-> suffix]

Years == {1900, 2000, 2010, 2012}
Months == (0..14) \cup {22, 24, 25, 99}
Days == {0, 1, 9, 28, 29, 30, 31, 32, 99}
Hours == {0, 5, 23, 24, 99}
Minutes == {0, 34, 59, 60, 99}
Seconds == {None, 0, 56, 59, 60, 99}
Fracs == {<<>>, <<"7">>, <<"7", "8">>, <<"7", "8", "9">>, <<"0", "0", "7">>,
          <<"0", "0", "0">>, <<"7", "8", "9", "1">>}

\* a few clock times and dates in range
SomeTimes == {<<12, 34, None, <<>> >>, <<5, 4, 6, <<"0", "0", "7">> >>}
SomeDates == {<<2010, 2, 23>>, <<2012, 12, 1>>}

\* every date, in and out of range, before a time in range
CalendarInputs ==
    {Compose(<<>>, sh, <<y, m, d>>, t, <<>>) :
        sh \in Shapes, y \in Years, m \in Months, d \in Days, t \in SomeTimes}

\* every time, in and out of range, alone and after a date in range
ClockInputs ==
    {Compose(<<>>, sh, dt, <<h, mi, sec, <<"7", "8", "9">> >>, <<>>) :
        sh \in Shapes, dt \in SomeDates \cup {NoDate},
        h \in Hours, mi \in Minutes, sec \in Seconds}

\* digits after the seconds, with and without a separator before them
FractionInputs ==
    {[Compose(<<>>, sh, dt, <<t[1], t[2], t[3], fr>>, x) EXCEPT !.msep = ms] :
        sh \in Shapes, dt \in SomeDates \cup {NoDate},
        t \in {<<15, 34, 56>>, <<15, 5, 12>>}, fr \in Fracs \ {<<>>},
        ms \in {<<>>, <<".">>, <<":">>}, x \in {<<>>, <<"a">>, <<".">>}}

\* a date alone, and a date before less than an hour and a minute
SomeStarts == {<<>>, <<"1">>, <<"1", "5">>, <<"1", "5", "3">>}
DateOnlyInputs ==
    {[Compose(p, sh, dt, NoTime, x) EXCEPT !.bnd = b, !.hour = h] :
        p \in {<<>>, <<"a">>}, sh \in Shapes, dt \in SomeDates,
        b \in {<<>>, <<" ">>, <<"-">>}, h \in SomeStarts, x \in {<<>>, <<"a">>, <<":">>}}

\* the characters tried where a grammar expects a separator
SepChoice == {<<>>, <<"-">>, <<"_">>, <<".">>, <<" ">>, <<"T">>, <<":">>,
              <<"|">>, <<"a">>, <<"/">>, <<LF>>}

SepSlots == {"ds1", "ds2", "bnd", "ts1", "ts2", "msep"}

WithSep(in, slot, c) ==
    CASE slot = "ds1"  -> [in EXCEPT !.ds1 = c]
      [] slot = "ds2"  -> [in EXCEPT !.ds2 = c]
      [] slot = "bnd"  -> [in EXCEPT !.bnd = c]
      [] slot = "ts1"  -> [in EXCEPT !.ts1 = c]
      [] slot = "ts2"  -> [in EXCEPT !.ts2 = c]
      [] slot = "msep" -> [in EXCEPT !.msep = c]

\* a full date and time, a date and a time in each shape with one
\* separator replaced
SeparatorInputs ==
    {WithSep(Compose(<<>>, sh, dt, t, <<>>), slot, c) :
        sh \in Shapes, dt \in {<<2010, 2, 23>>, NoDate},
        t \in {<<15, 34, 56, <<"7", "8", "9">> >>, NoTime},
        slot \in SepSlots, c \in SepChoice}

\* noise around a date, a time or both
NoiseInputs ==
    {Compose(p, sh, dt, t, x) :
        p \in Noise, sh \in {ShapeSepWide, ShapeNoSep},
        dt \in {<<2010, 2, 23>>, NoDate},
        t \in {<<15, 34, 56, <<"7", "8", "9">> >>, NoTime},
        x \in {<<>>, <<"a">>, <<"1">>, <<".">>, <<LF>>}}

\* two dates and times in one string, one separated and one not, in range
\* or not, in both orders
TwoInputs ==
    {Compose(Render(Compose(<<>>, sh1, <<2010, m1, 23>>, <<15, 34, None, <<>> >>, <<>>)) \o g,
             sh2, <<2011, m2, 4>>, <<5, 6, 7, <<>> >>, <<>>) :
        sh1 \in Shapes, sh2 \in Shapes, m1 \in {2, 13}, m2 \in {3, 14},
        g \in {<<>>, <<"a">>, <<"-">>}}

DateTimeInputs ==
    CalendarInputs \cup ClockInputs \cup FractionInputs \cup DateOnlyInputs
      \cup SeparatorInputs \cup NoiseInputs \cup TwoInputs

NoFields == [none |-> TRUE]
NoParts == [none |-> TRUE]

(***************************************************************************)
(* The program: a caller sets the package variable and calls the exported  *)
(* functions one after the other.                                          *)
(***************************************************************************)
(***************************************************************************)
(* Stopwatch.  Times and durations are readings of one monotonic clock, in *)
(* ticks.  s.records is kept as the sequence of its elements; a slice a    *)
(* method returns is its elements and whether it shares the array of       *)
(* s.records.                                                              *)
(***************************************************************************)
\* Stopwatch{}
ZeroStopwatch ==
    [isRunning |-> FALSE, startTime |-> 0, elapsedTime |-> 0, records |-> <<>>]

\* time.Since(t) read when the clock shows at
Since(t, at) == at - t

\* start(s), the clock showing at
start(st, at) == [st EXCEPT !.isRunning = TRUE, !.startTime = at]

\* stop(s) that forgets what was accumulated before
stopOverwriting(st, at) ==
    [st EXCEPT !.isRunning = FALSE, !.elapsedTime = Since(st.startTime, at)]

\* stop(s), the clock showing at
stop(st, at) ==
    [st EXCEPT !.isRunning = FALSE, !.elapsedTime = @ + Since(st.startTime, at)]

\* reset(s)
reset(st) == [st EXCEPT !.elapsedTime = 0, !.records = SubSeq(@, 1, 0)]

\* the body of ElapsedTime, the clock showing at
elapsed(st, at) ==
    IF st.isRunning THEN st.elapsedTime + Since(st.startTime, at)
    ELSE st.elapsedTime

\* append([]time.Duration{}, s.records...): a slice with an array of its own
CopyOf(records) == [elems |-> records, shares |-> FALSE, written |-> FALSE]

NoCall == [none |-> TRUE]

Goroutines == 1..NumGoroutines

Idle == [m |-> "none", at |-> "idle", outer |-> "none"]

NoLocals == [elapsed |-> 0, records |-> <<>>, result |-> <<"none", Nil>>]

InitStopwatch ==
    /\ pc = [g \in Goroutines |-> Idle]
    /\ lock = [writer |-> 0, pending |-> 0, readers |-> {}]
    /\ locals = [g \in Goroutines |-> NoLocals]
    /\ callsLeft = [g \in Goroutines |-> MaxCalls]
    /\ sw = ZeroStopwatch
    /\ now = 0
    /\ swCall = "none"
    /\ swBefore = NoCall
    /\ swResult = Nil
    /\ ran = 0
    /\ laps = <<>>

\* no call of GetFileChecksum in progress
NoChecksum ==
    [at |-> "idle", exists |-> TRUE, size |-> 0, headerSize |-> 0,
     buf |-> [kind |-> "int", len |-> 0], calculator |-> "nil",
     headerReadyHandler |-> "nil", fullReadyHandler |-> "nil",
     readCount |-> 0, offset |-> 0, calculated |-> <<>>,
     headerReady |-> <<>>, fullReady |-> <<>>, spins |-> FALSE, err |-> "nil",
     opened |-> FALSE, calls |-> <<>>]

\* NewWalkOption(): Recursive, isSubDir false
NewWalkOption == [Recursive |-> TRUE, isSubDir |-> FALSE]

\* &DirStatistics{}
ZeroStatistics == [DirCount |-> 0, FileCount |-> 0, TotalSize |-> 0]

\* no call with the WalkOption yet
NoWalk(option) ==
    [option |-> option, asked |-> 0, fn |-> "none", dir |-> <<>>,
     given |-> FALSE, first |-> FALSE, quit |-> FALSE,
     stat |-> ZeroStatistics, err |-> "nil"]

\* no call of IsMatched yet: the zero Filter
NoFilter ==
    [fn |-> "none",
     f |-> [CaseSensitive |-> FALSE, Include |-> <<>>, Exclude |-> <<>>,
            MinFileSize |-> 0, MaxFileSize |-> 0],
     fileInfo |-> [isDir |-> FALSE, size |-> 0, name |-> <<>>],
     err |-> "nil"]

\* no call of CompareVersions yet
NoVersion ==
    [fn |-> "none", version1 |-> <<>>, version2 |-> <<>>, result |-> 0]

Init ==
    /\ filter = NoFilter
    /\ version = NoVersion
    /\ walk = NoWalk(NewWalkOption)
    /\ checksum = NoChecksum
    /\ RequireDateTimeFieldValid = TRUE
    /\ fn = "none"
    /\ s = <<>>
    /\ parts = NoParts
    /\ fields = NoFields
    /\ result = Nil
    /\ InitStopwatch

\* RequireDateTimeFieldValid = b
SetRequireDateTimeFieldValid ==
    /\ fn = "none"
    /\ \E b \in BOOLEAN : RequireDateTimeFieldValid' = b
    /\ UNCHANGED <<fn, s, parts, fields, result>>
    /\ UNCHANGED notTimeVars

CallParseUnixTime ==
    /\ fn = "none"
    /\ \E in \in UnixInputs :
         /\ parts' = in
         /\ s' = in.prefix \o in.run \o in.suffix
    /\ fn' = "ParseUnixTime"
    /\ result' = ParseUnixTime(s')
    /\ UNCHANGED <<RequireDateTimeFieldValid, fields>>
    /\ UNCHANGED notTimeVars

CallIsDateTimeFieldValid ==
    /\ fn = "none"
    /\ \E f \in FieldInputs :
         /\ fields' = f
         /\ result' = IsDateTimeFieldValid(f.year, f.month, f.day,
                                           f.hour, f.minute, f.second)
    /\ fn' = "IsDateTimeFieldValid"
    /\ UNCHANGED <<RequireDateTimeFieldValid, s, parts>>
    /\ UNCHANGED notTimeVars

CallParseDateTime ==
    /\ fn = "none"
    /\ \E in \in DateTimeInputs :
         /\ parts' = in
         /\ s' = Render(in)
    /\ fn' = "ParseDateTime"
    /\ result' = ParseDateTime(s')
    /\ UNCHANGED <<RequireDateTimeFieldValid, fields>>
    /\ UNCHANGED notTimeVars

\* a call of ParseDate that leaves the package variable cleared
CallParseDateClearsFlag ==
    /\ fn = "none"
    /\ \E in \in DateTimeInputs :
         /\ parts' = in
         /\ s' = Render(in)
    /\ fn' = "ParseDate"
    /\ result' = ParseDate(s')
    /\ RequireDateTimeFieldValid' = FALSE
    /\ UNCHANGED fields
    /\ UNCHANGED notTimeVars

CallParseDate ==
    /\ fn = "none"
    /\ \E in \in DateTimeInputs :
         /\ parts' = in
         /\ s' = Render(in)
    /\ fn' = "ParseDate"
    /\ result' = ParseDate(s')
    /\ UNCHANGED <<RequireDateTimeFieldValid, fields>>
    /\ UNCHANGED notTimeVars

CallParseTime ==
    /\ fn = "none"
    /\ \E in \in DateTimeInputs :
         /\ parts' = in
         /\ s' = Render(in)
    /\ fn' = "ParseTime"
    /\ result' = ParseTime(s')
    /\ UNCHANGED <<RequireDateTimeFieldValid, fields>>
    /\ UNCHANGED notTimeVars

\* the caller has read the result
Return ==
    /\ fn # "none"
    /\ fn' = "none"
    /\ s' = <<>>
    /\ parts' = NoParts
    /\ fields' = NoFields
    /\ result' = Nil
    /\ UNCHANGED RequireDateTimeFieldValid
    /\ UNCHANGED notTimeVars

(***************************************************************************)
(* The methods of Stopwatch called by one goroutine, one after the other,  *)
(* while the clock advances.                                               *)
(***************************************************************************)
\* the clock advances between two calls
Tick ==
    /\ now < MaxTime
    /\ now' = now + 1
    /\ ran' = IF sw.isRunning THEN ran + 1 ELSE ran
    /\ swCall' = "none"
    /\ swBefore' = NoCall
    /\ swResult' = Nil
    /\ UNCHANGED <<sw, laps>>
    /\ UNCHANGED notSwVars

IsRunning ==
    /\ swCall' = "IsRunning"
    /\ swBefore' = sw
    /\ swResult' = sw.isRunning
    /\ UNCHANGED <<sw, now, ran, laps>>
    /\ UNCHANGED notSwVars

\* Restart that does not call reset
RestartKeeping ==
    /\ swCall' = "Restart"
    /\ swBefore' = sw
    /\ sw' = start(stop(sw, now), now)
    /\ swResult' = Nil
    /\ ran' = 0
    /\ laps' = <<>>
    /\ UNCHANGED now
    /\ UNCHANGED notSwVars

Restart ==
    /\ swCall' = "Restart"
    /\ swBefore' = sw
    /\ sw' = start(reset(stop(sw, now)), now)
    /\ swResult' = Nil
    /\ ran' = 0
    /\ laps' = <<>>
    /\ UNCHANGED now
    /\ UNCHANGED notSwVars

\* Reset without the test of isRunning
ResetUnguarded ==
    /\ swCall' = "Reset"
    /\ swBefore' = sw
    /\ sw' = reset(sw)
    /\ swResult' = Nil
    /\ ran' = IF sw.isRunning THEN ran ELSE 0
    /\ laps' = IF sw.isRunning THEN laps ELSE <<>>
    /\ UNCHANGED now
    /\ UNCHANGED notSwVars

Reset ==
    /\ swCall' = "Reset"
    /\ swBefore' = sw
    /\ sw' = IF ~sw.isRunning THEN reset(sw) ELSE sw
    /\ swResult' = Nil
    /\ ran' = IF sw.isRunning THEN ran ELSE 0
    /\ laps' = IF sw.isRunning THEN laps ELSE <<>>
    /\ UNCHANGED now
    /\ UNCHANGED notSwVars

Start ==
    /\ swCall' = "Start"
    /\ swBefore' = sw
    /\ sw' = IF ~sw.isRunning THEN start(sw, now) ELSE sw
    /\ swResult' = Nil
    /\ UNCHANGED <<now, ran, laps>>
    /\ UNCHANGED notSwVars

Stop ==
    /\ swCall' = "Stop"
    /\ swBefore' = sw
    /\ sw' = IF sw.isRunning THEN stop(sw, now) ELSE sw
    /\ swResult' = Nil
    /\ UNCHANGED <<now, ran, laps>>
    /\ UNCHANGED notSwVars

\* Record that returns s.records itself
RecordSharing ==
    /\ sw.isRunning => Len(sw.records) < MaxRecords
    /\ swCall' = "Record"
    /\ swBefore' = sw
    /\ sw' = IF sw.isRunning
             THEN [sw EXCEPT !.records =
                       Append(@, sw.elapsedTime + Since(sw.startTime, now))]
             ELSE sw
    /\ swResult' = [elems |-> sw'.records, shares |-> TRUE, written |-> FALSE]
    /\ laps' = IF sw.isRunning THEN Append(laps, ran) ELSE laps
    /\ UNCHANGED <<now, ran>>
    /\ UNCHANGED notSwVars

Record ==
    /\ sw.isRunning => Len(sw.records) < MaxRecords
    /\ swCall' = "Record"
    /\ swBefore' = sw
    /\ sw' = IF sw.isRunning
             THEN [sw EXCEPT !.records =
                       Append(@, sw.elapsedTime + Since(sw.startTime, now))]
             ELSE sw
    /\ swResult' = CopyOf(sw'.records)
    /\ laps' = IF sw.isRunning THEN Append(laps, ran) ELSE laps
    /\ UNCHANGED <<now, ran>>
    /\ UNCHANGED notSwVars

\* the caller of Record assigns to an element of the slice it got
WriteReturned ==
    /\ swCall = "Record"
    /\ ~swResult.written
    /\ \E i \in 1..Len(swResult.elems) :
         /\ swResult' = [swResult EXCEPT !.elems[i] = MaxTime + 1,
                                         !.written = TRUE]
         /\ sw' = IF swResult.shares
                  THEN [sw EXCEPT !.records[i] = MaxTime + 1]
                  ELSE sw
    /\ UNCHANGED <<now, swCall, swBefore, ran, laps>>
    /\ UNCHANGED notSwVars

ElapsedTime ==
    /\ swCall' = "ElapsedTime"
    /\ swBefore' = sw
    /\ swResult' = elapsed(sw, now)
    /\ UNCHANGED <<sw, now, ran, laps>>
    /\ UNCHANGED notSwVars

\* what a task returns
TaskErrors == {Nil, Errorf("task")}

\* Elapsing that returns no error of the task
ElapsingDroppingError ==
    \E err \in TaskErrors, d \in 0..(MaxTime - now) :
      \E d2 \in 0..(IF now + d < MaxTime THEN 1 ELSE 0) :
        LET restarted == start(reset(stop(sw, now)), now)
        IN  /\ swCall' = "Elapsing"
            /\ swBefore' = sw
            /\ swResult' = [duration |-> elapsed(restarted, now + d),
                            err |-> Nil, task |-> err, took |-> d]
            /\ sw' = IF restarted.isRunning
                     THEN stop(restarted, now + d + d2) ELSE restarted
            /\ now' = now + d + d2
            /\ ran' = d + d2
            /\ laps' = <<>>
            /\ UNCHANGED notSwVars

\* Elapsing(fn) of the Stopwatch without records (stopwatch.go): Restart
\* starts without clearing, Stop is called before ElapsedTime and assigns
\* the time since the start, and the deferred Stop finds nothing running
ElapsingV1 ==
    \E err \in TaskErrors, d \in 0..(MaxTime - now) :
        LET restarted == [sw EXCEPT !.isRunning = TRUE, !.startTime = now]
            stopped   == [restarted EXCEPT !.isRunning = FALSE,
                                           !.elapsedTime = Since(now, now + d)]
        IN  /\ swCall' = "Elapsing"
            /\ swBefore' = sw
            /\ swResult' = [duration |-> elapsed(stopped, now + d),
                            err |-> err, task |-> err, took |-> d]
            /\ sw' = stopped
            /\ now' = now + d
            /\ ran' = d
            /\ UNCHANGED laps
            /\ UNCHANGED notSwVars

\* Elapsing(task): the task takes d ticks and returns err; d2 ticks pass
\* between the call of ElapsedTime and the deferred Stop
Elapsing ==
    \E err \in TaskErrors, d \in 0..(MaxTime - now) :
      \E d2 \in 0..(IF now + d < MaxTime THEN 1 ELSE 0) :
        LET restarted == start(reset(stop(sw, now)), now)
        IN  /\ swCall' = "Elapsing"
            /\ swBefore' = sw
            /\ swResult' = [duration |-> elapsed(restarted, now + d),
                            err |-> err, task |-> err, took |-> d]
            /\ sw' = IF restarted.isRunning
                     THEN stop(restarted, now + d + d2) ELSE restarted
            /\ now' = now + d + d2
            /\ ran' = d + d2
            /\ laps' = <<>>
            /\ UNCHANGED notSwVars

\* the program of one goroutine that uses a Stopwatch
NextStopwatch ==
    \/ Tick
    \/ IsRunning
    \/ Restart
    \/ Reset
    \/ Start
    \/ Stop
    \/ Record
    \/ WriteReturned
    \/ ElapsedTime
    \/ Elapsing

SpecStopwatch == Init /\ [][NextStopwatch]_vars

\* the program of one goroutine that times tasks, with either Stopwatch
NextElapsing ==
    \/ Tick
    \/ Start
    \/ Stop
    \/ Record
    \/ ElapsedTime
    \/ Elapsing
    \/ ElapsingV1

SpecElapsing == Init /\ [][NextElapsing]_vars

(***************************************************************************)
(* The methods of Stopwatch called by several goroutines at once.  A       *)
(* method is a sequence of steps: taking s.lock, the reads and writes of   *)
(* the fields between, releasing s.lock.  The steps of different           *)
(* goroutines interleave wherever s.lock allows.                           *)
(***************************************************************************)
Methods ==
    {"IsRunning", "Restart", "Reset", "Start", "Stop", "Record",
     "ElapsedTime", "Elapsing"}

\* the first step of a method
Entry(m) ==
    CASE m = "IsRunning" -> [m |-> m, at |-> "read", outer |-> "none"]
      [] m \in {"Restart", "Start", "Stop"} ->
             [m |-> m, at |-> "Lock", outer |-> "none"]
      [] m \in {"Reset", "Record", "ElapsedTime"} ->
             [m |-> m, at |-> "RLock", outer |-> "none"]
      [] m = "Elapsing" -> [m |-> "Restart", at |-> "Lock", outer |-> m]

\* where a goroutine goes on when a method returns: to its caller, which
\* in Elapsing runs the task after Restart, then ElapsedTime, then the
\* deferred Stop; a method the task called returns into the task
Continue(p) ==
    IF p.outer = "task"
    THEN [m |-> "Elapsing", at |-> "task", outer |-> "Elapsing"]
    ELSE IF p.outer # "Elapsing" THEN Idle
    ELSE CASE p.m = "Restart" -> [m |-> "Elapsing", at |-> "task", outer |-> p.outer]
           [] p.m = "ElapsedTime" -> [m |-> "Stop", at |-> "Lock", outer |-> p.outer]
           [] p.m = "Stop" -> Idle

At(g, m, at) == pc[g].m = m /\ pc[g].at = at

Goto(g, at) == pc' = [pc EXCEPT ![g].at = at]

\* a goroutine calls a method
Call(g) ==
    /\ pc[g] = Idle
    /\ callsLeft[g] > 0
    /\ \E m \in Methods :
         /\ m = "Record" =>
                Len(sw.records) + Cardinality({h \in Goroutines : pc[h].m = m})
                    < MaxRecords
         /\ pc' = [pc EXCEPT ![g] = Entry(m)]
    /\ callsLeft' = [callsLeft EXCEPT ![g] = @ - 1]
    /\ locals' = [locals EXCEPT ![g] = NoLocals]
    /\ UNCHANGED <<lock, swVars, notStopwatch>>

\* s.lock.Lock(), its first half: the writer gets ahead of the other
\* writers and from now on no new reader is admitted
Lock(g) ==
    /\ pc[g].at = "Lock"
    /\ lock.writer = 0 /\ lock.pending = 0
    /\ lock' = [lock EXCEPT !.pending = g]
    /\ Goto(g, "Locking")
    /\ UNCHANGED <<locals, callsLeft, swVars, notStopwatch>>

\* s.lock.Lock(), its second half: the readers that hold the lock have
\* left, and the writer holds it
Locked(g) ==
    /\ pc[g].at = "Locking"
    /\ lock.pending = g /\ lock.readers = {}
    /\ lock' = [lock EXCEPT !.writer = g, !.pending = 0]
    /\ Goto(g, CASE pc[g].m = "Restart" -> "stop" [] OTHER -> "body")
    /\ UNCHANGED <<locals, callsLeft, swVars, notStopwatch>>

\* s.lock.RLock(): it waits for a writer that holds or awaits the lock
RLock(g) ==
    /\ pc[g].at = "RLock"
    /\ lock.writer = 0 /\ lock.pending = 0
    /\ lock' = [lock EXCEPT !.readers = @ \cup {g}]
    /\ Goto(g, CASE pc[g].m = "Record" -> "load"
                 [] pc[g].m = "ElapsedTime" -> "read"
                 [] OTHER -> "body")
    /\ UNCHANGED <<locals, callsLeft, swVars, notStopwatch>>

\* the deferred s.lock.Unlock(), and the return
Unlock(g) ==
    /\ pc[g].at = "Unlock"
    /\ lock' = [lock EXCEPT !.writer = 0]
    /\ pc' = [pc EXCEPT ![g] = Continue(@)]
    /\ UNCHANGED <<locals, callsLeft, swVars, notStopwatch>>

\* the deferred s.lock.RUnlock(), and the return
RUnlock(g) ==
    /\ pc[g].at = "RUnlock"
    /\ lock' = [lock EXCEPT !.readers = @ \ {g}]
    /\ pc' = [pc EXCEPT ![g] = Continue(@)]
    /\ UNCHANGED <<locals, callsLeft, swVars, notStopwatch>>

\* return s.isRunning
IsRunningRead(g) ==
    /\ At(g, "IsRunning", "read")
    /\ pc' = [pc EXCEPT ![g] = Continue(@)]
    /\ locals' = [locals EXCEPT ![g].result = <<"IsRunning", sw.isRunning>>]
    /\ UNCHANGED <<lock, callsLeft, swVars, notStopwatch>>

\* if !s.isRunning { start(s) }
StartBody(g) ==
    /\ At(g, "Start", "body")
    /\ sw' = IF ~sw.isRunning THEN start(sw, now) ELSE sw
    /\ Goto(g, "Unlock")
    /\ UNCHANGED <<lock, locals, callsLeft, notStopwatch>>
    /\ UNCHANGED <<now, swCall, swBefore, swResult, ran, laps>>

\* if s.isRunning { stop(s) }
StopBody(g) ==
    /\ At(g, "Stop", "body")
    /\ sw' = IF sw.isRunning THEN stop(sw, now) ELSE sw
    /\ Goto(g, "Unlock")
    /\ UNCHANGED <<lock, locals, callsLeft, notStopwatch>>
    /\ UNCHANGED <<now, swCall, swBefore, swResult, ran, laps>>

\* Restart calling the method Stop, which takes s.lock, in place of stop(s)
RestartCallsStop(g) ==
    /\ At(g, "Restart", "stop")
    /\ pc' = [pc EXCEPT ![g] = [m |-> "Stop", at |-> "Lock", outer |-> @.outer]]
    /\ UNCHANGED <<lock, locals, callsLeft, swVars, notStopwatch>>

\* stop(s) in Restart
RestartStop(g) ==
    /\ At(g, "Restart", "stop")
    /\ sw' = stop(sw, now)
    /\ Goto(g, "reset")
    /\ UNCHANGED <<lock, locals, callsLeft, notStopwatch>>
    /\ UNCHANGED <<now, swCall, swBefore, swResult, ran, laps>>

\* reset(s) in Restart
RestartReset(g) ==
    /\ At(g, "Restart", "reset")
    /\ sw' = reset(sw)
    /\ Goto(g, "start")
    /\ UNCHANGED <<lock, locals, callsLeft, notStopwatch>>
    /\ UNCHANGED <<now, swCall, swBefore, swResult, ran, laps>>

\* start(s) in Restart
RestartStart(g) ==
    /\ At(g, "Restart", "start")
    /\ sw' = start(sw, now)
    /\ Goto(g, "Unlock")
    /\ UNCHANGED <<lock, locals, callsLeft, notStopwatch>>
    /\ UNCHANGED <<now, swCall, swBefore, swResult, ran, laps>>

\* if !s.isRunning { reset(s) }
ResetBody(g) ==
    /\ At(g, "Reset", "body")
    /\ sw' = IF ~sw.isRunning THEN reset(sw) ELSE sw
    /\ Goto(g, "RUnlock")
    /\ UNCHANGED <<lock, locals, callsLeft, notStopwatch>>
    /\ UNCHANGED <<now, swCall, swBefore, swResult, ran, laps>>

\* if s.isRunning { elapsed := ...; and the read of s.records by append
RecordLoad(g) ==
    /\ At(g, "Record", "load")
    /\ IF sw.isRunning
       THEN /\ locals' = [locals EXCEPT
                             ![g].elapsed = sw.elapsedTime + Since(sw.startTime, now),
                             ![g].records = sw.records]
            /\ Goto(g, "store")
       ELSE /\ Goto(g, "copy")
            /\ UNCHANGED locals
    /\ UNCHANGED <<lock, callsLeft, swVars, notStopwatch>>

\* s.records = append(s.records, elapsed): the assignment
RecordStore(g) ==
    /\ At(g, "Record", "store")
    /\ sw' = [sw EXCEPT !.records = Append(locals[g].records, locals[g].elapsed)]
    /\ Goto(g, "copy")
    /\ UNCHANGED <<lock, locals, callsLeft, notStopwatch>>
    /\ UNCHANGED <<now, swCall, swBefore, swResult, ran, laps>>

\* return append([]time.Duration{}, s.records...)
RecordCopy(g) ==
    /\ At(g, "Record", "copy")
    /\ Goto(g, "RUnlock")
    /\ locals' = [locals EXCEPT ![g].result = <<"Record", CopyOf(sw.records)>>]
    /\ UNCHANGED <<lock, callsLeft, swVars, notStopwatch>>

\* the body of ElapsedTime
ElapsedTimeRead(g) ==
    /\ At(g, "ElapsedTime", "read")
    /\ Goto(g, "RUnlock")
    /\ locals' = [locals EXCEPT ![g].result = <<"ElapsedTime", elapsed(sw, now)>>]
    /\ UNCHANGED <<lock, callsLeft, swVars, notStopwatch>>

\* task() in Elapsing calls a method of the same Stopwatch (one level of
\* calls: the task calls no Elapsing of its own)
TaskCalls(g) ==
    /\ At(g, "Elapsing", "task")
    /\ callsLeft[g] > 0
    /\ \E m \in Methods \ {"Elapsing"} :
         /\ m = "Record" =>
                Len(sw.records) + Cardinality({h \in Goroutines : pc[h].m = m})
                    < MaxRecords
         /\ pc' = [pc EXCEPT ![g] = [Entry(m) EXCEPT !.outer = "task"]]
    /\ callsLeft' = [callsLeft EXCEPT ![g] = @ - 1]
    /\ UNCHANGED <<lock, locals, swVars, notStopwatch>>

\* err := task() in Elapsing: the task returns
ElapsingTask(g) ==
    /\ At(g, "Elapsing", "task")
    /\ pc' = [pc EXCEPT ![g] = [m |-> "ElapsedTime", at |-> "RLock",
                               outer |-> "Elapsing"]]
    /\ UNCHANGED <<lock, locals, callsLeft, swVars, notStopwatch>>

\* a step of goroutine g inside the method it has called
Step(g) ==
    \/ Lock(g)
    \/ Locked(g)
    \/ RLock(g)
    \/ Unlock(g)
    \/ RUnlock(g)
    \/ IsRunningRead(g)
    \/ StartBody(g)
    \/ StopBody(g)
    \/ RestartStop(g)
    \/ RestartReset(g)
    \/ RestartStart(g)
    \/ ResetBody(g)
    \/ RecordLoad(g)
    \/ RecordStore(g)
    \/ RecordCopy(g)
    \/ ElapsedTimeRead(g)
    \/ TaskCalls(g)
    \/ ElapsingTask(g)

\* the program of the goroutines that share a Stopwatch
NextGoroutines ==
    \/ Tick
    \/ \E g \in Goroutines : Call(g) \/ Step(g)

SpecGoroutines == Init /\ [][NextGoroutines]_vars

\* the calls alone, between two readings of the clock: no step of a call
\* waits for the clock, and a goroutine inside a call is scheduled again
NextMethods == \E g \in Goroutines : Call(g) \/ Step(g)

SpecMethodsRun ==
    Init /\ [][NextMethods]_vars /\ \A g \in Goroutines : WF_pc(Step(g))

\* the smaller of two numbers
Least(a, b) == IF a <= b THEN a ELSE b

\* getBuffer(buf): a buffer of the length buf when buf is an int, buf itself
\* when it is a []byte; only its length matters here
getBuffer(buf) == [len |-> buf.len]

\* validateArguments that checks headerSize whether or not there is a
\* headerReadyHandler
validateArgumentsStrict(headerSize, bufferSize, calculator, headerReadyHandler, fullReadyHandler) ==
    IF headerReadyHandler = "nil" /\ fullReadyHandler = "nil"
    THEN "headerReadyHandler and fullReadyHandler must not be nil at the same time"
    ELSE IF calculator = "nil"
    THEN "calculator must not be nil"
    ELSE IF headerSize <= 0
    THEN "header size must be greater than 0"
    ELSE IF bufferSize < headerSize
    THEN "buffer size can not be less than headerSize"
    ELSE "nil"

\* validateArguments(...): the error, or "nil"
validateArguments(headerSize, bufferSize, calculator, headerReadyHandler, fullReadyHandler) ==
    IF headerReadyHandler = "nil" /\ fullReadyHandler = "nil"
    THEN "headerReadyHandler and fullReadyHandler must not be nil at the same time"
    ELSE IF calculator = "nil"
    THEN "calculator must not be nil"
    ELSE IF headerSize <= 0 /\ headerReadyHandler # "nil"
    THEN "header size must be greater than 0"
    ELSE IF bufferSize < headerSize /\ headerReadyHandler # "nil"
    THEN "buffer size can not be less than headerSize"
    ELSE "nil"

\* a callback: nil, one that returns nil, one that can return an error
Callbacks == {"nil", "ok", "fails"}

\* whether a call of a callback returns an error
Fails(callback) == IF callback = "fails" THEN BOOLEAN ELSE {FALSE}

\* the files: one that does not exist, and one of each length
Files ==
    {[exists |-> FALSE, size |-> 0]}
        \cup {[exists |-> TRUE, size |-> n] : n \in 0..MaxFileLen}

\* the buffers: an int or a []byte
Buffers == [kind : {"int", "slice"}, len : 0..MaxBufLen]

\* GetFileChecksum returns err
Returns(c, err) == [c EXCEPT !.at = "done", !.err = err]

\* GetFileChecksum(filename, headerSize, buf, calculator, headerReadyHandler,
\* fullReadyHandler) up to the opening of the file
GetFileChecksum ==
    /\ checksum.at = "idle"
    /\ \E file \in Files, headerSize \in (-1)..MaxHeaderSize, buf \in Buffers,
          calculator \in Callbacks, headerReadyHandler \in Callbacks,
          fullReadyHandler \in Callbacks :
        LET buffer == getBuffer(buf)
            invalid == validateArguments(headerSize, buffer.len, calculator,
                                         headerReadyHandler, fullReadyHandler)
            called == [NoChecksum EXCEPT
                          !.exists = file.exists, !.size = file.size,
                          !.headerSize = headerSize, !.buf = buf,
                          !.calculator = calculator,
                          !.headerReadyHandler = headerReadyHandler,
                          !.fullReadyHandler = fullReadyHandler]
        IN checksum' =
               IF invalid # "nil" THEN Returns(called, invalid)
               ELSE IF ~file.exists
               THEN Returns([called EXCEPT !.opened = TRUE], "open")
               ELSE IF headerReadyHandler # "nil"
               THEN [called EXCEPT !.at = "header", !.opened = TRUE]
               ELSE [called EXCEPT !.at = "rest", !.opened = TRUE]
    /\ UNCHANGED notFileVars

\* the header without the bytes the buffer held beyond it
ReadHeaderDroppingBeyond ==
    /\ checksum.at = "header"
    /\ \E readFails \in BOOLEAN,
          headerFails \in Fails(checksum.calculator),
          handlerFails \in Fails(checksum.headerReadyHandler),
          beyondFails \in Fails(checksum.calculator) :
        LET c == checksum
            buffer == getBuffer(c.buf)
            readCount == Least(buffer.len, c.size)
            fullIsReady == readCount <= c.headerSize
            header == IF fullIsReady THEN <<0, readCount>>
                                     ELSE <<0, c.headerSize>>
            read == [c EXCEPT !.readCount = readCount, !.offset = readCount]
            summed == [read EXCEPT !.calculated = Append(@, header),
                                   !.calls = Append(@, "calculator")]
            told == [summed EXCEPT
                        !.headerReady = Append(@, [size |-> c.size,
                                                   fullIsReady |-> fullIsReady,
                                                   calculated |-> summed.calculated]),
                        !.calls = Append(@, "headerReadyHandler")]
            beyond == [told EXCEPT !.calls = Append(@, "calculator")]
        IN checksum' =
               IF readFails THEN Returns(c, "read")
               ELSE IF headerFails THEN Returns(summed, "calculator")
               ELSE IF handlerFails THEN Returns(told, "headerReadyHandler")
               ELSE IF fullIsReady \/ c.fullReadyHandler = "nil"
               THEN Returns(told, "nil")
               ELSE IF beyondFails THEN Returns(beyond, "calculator")
               ELSE [beyond EXCEPT !.at = "rest"]
    /\ UNCHANGED notFileVars

\* the checksum of the header: io.ReadFull(reader, buffer), the calculator
\* on the header, headerReadyHandler(info, fullIsReady), the calculator on
\* what was read beyond the header
ReadHeader ==
    /\ checksum.at = "header"
    /\ \E readFails \in BOOLEAN,
          headerFails \in Fails(checksum.calculator),
          handlerFails \in Fails(checksum.headerReadyHandler),
          beyondFails \in Fails(checksum.calculator) :
        LET c == checksum
            buffer == getBuffer(c.buf)
            readCount == Least(buffer.len, c.size)
            fullIsReady == readCount <= c.headerSize
            header == IF fullIsReady THEN <<0, readCount>>
                                     ELSE <<0, c.headerSize>>
            read == [c EXCEPT !.readCount = readCount, !.offset = readCount]
            summed == [read EXCEPT !.calculated = Append(@, header),
                                   !.calls = Append(@, "calculator")]
            told == [summed EXCEPT
                        !.headerReady = Append(@, [size |-> c.size,
                                                   fullIsReady |-> fullIsReady,
                                                   calculated |-> summed.calculated]),
                        !.calls = Append(@, "headerReadyHandler")]
            beyond == [told EXCEPT
                          !.calculated = Append(@, <<c.headerSize, readCount>>),
                          !.calls = Append(@, "calculator")]
        IN checksum' =
               IF readFails THEN Returns(c, "read")
               ELSE IF headerFails THEN Returns(summed, "calculator")
               ELSE IF handlerFails THEN Returns(told, "headerReadyHandler")
               ELSE IF fullIsReady \/ c.fullReadyHandler = "nil"
               THEN Returns(told, "nil")
               ELSE IF beyondFails THEN Returns(beyond, "calculator")
               ELSE [beyond EXCEPT !.at = "rest"]
    /\ UNCHANGED notFileVars

\* one turn of the loop: reader.Read(buffer), then fullReadyHandler(info) at
\* the end of the file or the calculator on what was read
ReadRest ==
    /\ checksum.at = "rest"
    /\ \E readFails \in BOOLEAN,
          readCount \in 0..Least(getBuffer(checksum.buf).len,
                                 checksum.size - checksum.offset),
          calculatorFails \in Fails(checksum.calculator),
          handlerFails \in Fails(checksum.fullReadyHandler) :
        LET c == checksum
            buffer == getBuffer(c.buf)
            atEOF == c.offset = c.size
            read == [c EXCEPT !.readCount = readCount,
                              !.offset = @ + readCount]
            summed == [read EXCEPT
                          !.calculated = Append(@, <<c.offset,
                                                     c.offset + readCount>>),
                          !.calls = Append(@, "calculator")]
            told == [c EXCEPT !.readCount = 0,
                              !.fullReady = Append(@, [size |-> c.size]),
                              !.calls = Append(@, "fullReadyHandler")]
            \* a turn on nothing read; when the loop spins its turns are
            \* all alike and the first stands for them
            empty == IF c.spins THEN c
                     ELSE [c EXCEPT !.readCount = 0,
                                    !.calculated = Append(@, <<c.offset, c.offset>>),
                                    !.calls = Append(@, "calculator")]
        IN \* Read returns 0 bytes only at the end of the file or into a
           \* buffer of length 0, and then no error at all
           /\ readCount = 0 <=> (atEOF \/ buffer.len = 0)
           /\ checksum' =
               IF buffer.len = 0
               THEN IF calculatorFails THEN Returns(empty, "calculator")
                    ELSE [empty EXCEPT !.spins = TRUE]
               ELSE IF readFails THEN Returns(c, "read")
               ELSE IF atEOF
               THEN Returns(told, IF handlerFails THEN "fullReadyHandler"
                                                  ELSE "nil")
               ELSE IF calculatorFails THEN Returns(summed, "calculator")
               ELSE summed
    /\ UNCHANGED notFileVars

\* the caller has the error GetFileChecksum returned
ReturnChecksum ==
    /\ checksum.at = "done"
    /\ checksum' = NoChecksum
    /\ UNCHANGED notFileVars

\* the program of a caller of GetFileChecksum
NextChecksum ==
    \/ GetFileChecksum
    \/ ReadHeader
    \/ ReadRest
    \/ ReturnChecksum

SpecChecksum == Init /\ [][NextChecksum]_vars

\* the same program with a call that goes on: GetFileChecksum runs in the
\* caller's goroutine, which takes its next step whenever it has one
SpecChecksumRuns ==
    /\ SpecChecksum
    /\ WF_vars(ReadHeader)
    /\ WF_vars(ReadRest)

\* ShouldQuitForNonRecursive that never remembers it was asked
ShouldQuitNever(option) == [quit |-> FALSE, option |-> option]

\* option.ShouldQuitForNonRecursive(): what it returns and the option after
ShouldQuitForNonRecursive(option) ==
    IF option.Recursive THEN [quit |-> FALSE, option |-> option]
    ELSE IF option.isSubDir THEN [quit |-> TRUE, option |-> option]
    ELSE [quit |-> FALSE, option |-> [option EXCEPT !.isSubDir = TRUE]]

\* the entries of a directory: files with their sizes and subdirectories
\* with the sizes of their files
DirEntries ==
    [kind : {"file"}, size : 1..MaxSize, files : { <<>> }]
        \cup [kind : {"dir"}, size : {0}, files : { <<>>, <<1>> }]

\* the directories, their entries in the order filepath.Walk reads them in
\* (the lexical order of their names)
Dirs ==
    UNION {[1..n -> DirEntries] : n \in 0..MaxEntries}

RECURSIVE Visits(_)
\* the paths filepath.Walk gives to its function for the entries of a
\* directory: each entry, and after a subdirectory its files
Visits(entries) ==
    IF entries = <<>> THEN <<>>
    ELSE LET e == Head(entries)
         IN <<[kind |-> e.kind, size |-> e.size]>>
                \o [i \in 1..Len(e.files) |->
                       [kind |-> "file", size |-> e.files[i]]]
                \o Visits(Tail(entries))

\* the function GetDirStatistics gives to filepath.Walk, on one path
\* without error: the statistics, the option and the error after it
Visit(info, w) ==
    IF info.kind = "dir"
    THEN LET asked == ShouldQuitForNonRecursive(w.option)
         IN IF asked.quit
            THEN [w EXCEPT !.option = asked.option, !.asked = @ + 1,
                           !.err = "SkipAll"]
            ELSE [w EXCEPT !.option = asked.option, !.asked = @ + 1,
                           !.stat.DirCount = @ + 1]
    ELSE [w EXCEPT !.stat.FileCount = @ + 1,
                   !.stat.TotalSize = @ + info.size]

RECURSIVE Walk(_, _)
\* filepath.Walk over the paths left to visit: it stops at the first error
\* its function returns
Walk(paths, w) ==
    IF paths = <<>> \/ w.err # "nil" THEN w
    ELSE Walk(Tail(paths), The({Visit(Head(paths), w)}))

\* FilterFilePathSkipErrors(err)
FilterFilePathSkipErrors(err) ==
    IF err = "SkipAll" \/ err = "SkipDir" THEN "nil" ELSE err

\* option := &WalkOption{Recursive: ...}, or NewWalkOption()
MakeWalkOption ==
    /\ \E recursive \in BOOLEAN :
           walk' = NoWalk([Recursive |-> recursive, isSubDir |-> FALSE])
    /\ UNCHANGED notWalkVars

\* option.ShouldQuitForNonRecursive(), called by the caller
CallShouldQuitForNonRecursive ==
    /\ walk.fn = "none"
    /\ walk.asked < MaxAsked
    /\ LET asked == ShouldQuitForNonRecursive(walk.option)
       IN walk' = [walk EXCEPT !.fn = "ShouldQuitForNonRecursive",
                               !.option = asked.option,
                               !.asked = @ + 1,
                               !.first = (walk.asked = 0),
                               !.quit = asked.quit,
                               !.dir = <<>>,
                               !.given = TRUE,
                               !.stat = ZeroStatistics,
                               !.err = "nil"]
    /\ UNCHANGED notWalkVars

\* GetDirStatistics(dir, option), option the caller's WalkOption or nil
GetDirStatistics ==
    /\ walk.fn = "none"
    /\ walk.asked < MaxAsked
    /\ \E dir \in Dirs, given \in BOOLEAN :
        LET option == IF given THEN walk.option ELSE NewWalkOption
            root == [kind |-> "dir", size |-> 0]
            before == [walk EXCEPT !.option = option,
                                   !.stat = ZeroStatistics, !.err = "nil"]
            walked == Walk(<<root>> \o Visits(dir), before)
        IN walk' = [walk EXCEPT
                       !.fn = "GetDirStatistics",
                       !.option = IF given THEN walked.option ELSE @,
                       !.asked = IF given THEN walked.asked ELSE @,
                       !.first = (walk.asked = 0),
                       !.quit = FALSE,
                       !.dir = dir,
                       !.given = given,
                       !.stat = walked.stat,
                       !.err = FilterFilePathSkipErrors(walked.err)]
    /\ UNCHANGED notWalkVars

\* the caller has taken what the call returned; its WalkOption stays as
\* the call left it
ReturnWalk ==
    /\ walk.fn # "none"
    /\ walk' = [NoWalk(walk.option) EXCEPT !.asked = walk.asked]
    /\ UNCHANGED notWalkVars

\* the program of a caller with a WalkOption
NextWalk ==
    \/ MakeWalkOption
    \/ CallShouldQuitForNonRecursive
    \/ GetDirStatistics
    \/ ReturnWalk

SpecWalk == Init /\ [][NextWalk]_vars

\* the predefined reasons for which a file is refused
ErrReasonIsDir == "file is a directory"

ErrReasonMinSize == "file size is less than min size"

ErrReasonMaxSize == "file size is larger than max size"

ErrReasonInExclude == "file name matches exclude"

ErrReasonNotInInclude == "file name does not match include"

\* IsRefusedReason(err)
IsRefusedReason(err) ==
    \/ err = ErrReasonInExclude
    \/ err = ErrReasonNotInInclude
    \/ err = ErrReasonIsDir
    \/ err = ErrReasonMinSize
    \/ err = ErrReasonMaxSize

\* unicode.ToLower of one character
LowerOf(c) ==
    CASE c = "A" -> "a" [] c = "B" -> "b" [] c = "T" -> "t" [] OTHER -> c

\* strings.ToLower(str)
ToLower(str) == [k \in 1..Len(str) |-> LowerOf(str[k])]

\* filepath.Ext(name): from the last dot on, "" without a dot
Ext(name) ==
    IF \E k \in 1..Len(name) : name[k] = "."
    THEN LET dot == CHOOSE k \in 1..Len(name) :
                        name[k] = "." /\ \A j \in (k + 1)..Len(name) : name[j] # "."
         IN SubSeq(name, dot, Len(name))
    ELSE <<>>

RECURSIVE Match(_, _)
\* filepath.Match(pattern, name) for patterns of "*", "?" and plain
\* characters and names without a separator
Match(pattern, name) ==
    IF pattern = <<>> THEN name = <<>>
    ELSE IF Head(pattern) = "*"
    THEN \E k \in 0..Len(name) :
             Match(Tail(pattern), SubSeq(name, k + 1, Len(name)))
    ELSE /\ name # <<>>
         /\ Head(pattern) = "?" \/ Head(pattern) = Head(name)
         /\ Match(Tail(pattern), Tail(name))

\* matchPattern(pattern, filename, ext)
matchPattern(pattern, filename, ext) ==
    IF pattern = <<>> /\ ext = <<>> THEN TRUE
    ELSE Match(pattern, filename)

\* IsMatched that looks at Include before Exclude
IsMatchedIncludeFirst(f, fileInfo) ==
    IF fileInfo.isDir THEN ErrReasonIsDir
    ELSE IF fileInfo.size < f.MinFileSize /\ f.MinFileSize > 0
    THEN ErrReasonMinSize
    ELSE IF fileInfo.size > f.MaxFileSize /\ f.MaxFileSize > 0
    THEN ErrReasonMaxSize
    ELSE LET filename == IF ~f.CaseSensitive THEN ToLower(fileInfo.name)
                                             ELSE fileInfo.name
             ext == Ext(filename)
         IN IF \E i \in 1..Len(f.Include) :
                   matchPattern(f.Include[i], filename, ext)
            THEN "nil"
            ELSE IF \E i \in 1..Len(f.Exclude) :
                        matchPattern(f.Exclude[i], filename, ext)
            THEN ErrReasonInExclude
            ELSE ErrReasonNotInInclude

\* f.IsMatched(fileInfo): the reason, or "nil"
IsMatched(f, fileInfo) ==
    IF fileInfo.isDir THEN ErrReasonIsDir
    ELSE IF fileInfo.size < f.MinFileSize /\ f.MinFileSize > 0
    THEN ErrReasonMinSize
    ELSE IF fileInfo.size > f.MaxFileSize /\ f.MaxFileSize > 0
    THEN ErrReasonMaxSize
    ELSE LET filename == IF ~f.CaseSensitive THEN ToLower(fileInfo.name)
                                             ELSE fileInfo.name
             ext == Ext(filename)
         IN IF \E i \in 1..Len(f.Exclude) :
                   matchPattern(f.Exclude[i], filename, ext)
            THEN ErrReasonInExclude
            ELSE IF \E i \in 1..Len(f.Include) :
                        matchPattern(f.Include[i], filename, ext)
            THEN "nil"
            ELSE ErrReasonNotInInclude

\* the names of files: with and without an extension, in both cases
FileNames ==
    {<<"a">>, <<"A">>, <<"a", ".", "t">>, <<"A", ".", "T">>,
     <<"b", ".", "t">>}

\* the patterns of a Filter
Patterns ==
    {<<>>, <<"*", ".", "t">>, <<"*", ".", "T">>, <<"a", "*">>}

\* the Filters: Include of up to MaxPatterns patterns, Exclude of one at most
Filters ==
    [CaseSensitive : BOOLEAN,
     Include : UNION {[1..n -> Patterns] : n \in 0..MaxPatterns},
     Exclude : UNION {[1..n -> Patterns] : n \in 0..1},
     MinFileSize : (-1)..MaxSize,
     MaxFileSize : 0..MaxSize]

\* the os.FileInfo of files and directories
FileInfos == [isDir : BOOLEAN, size : 0..MaxSize, name : FileNames]

\* err := f.IsMatched(fileInfo)
CallIsMatched ==
    /\ filter.fn = "none"
    /\ \E f \in Filters, fileInfo \in FileInfos :
           filter' = [fn |-> "IsMatched", f |-> f, fileInfo |-> fileInfo,
                      err |-> IsMatched(f, fileInfo)]
    /\ UNCHANGED notFilterVars

\* the caller has the reason
ReturnIsMatched ==
    /\ filter.fn # "none"
    /\ filter' = NoFilter
    /\ UNCHANGED notFilterVars

\* the program of a caller of Filter.IsMatched
NextFilter ==
    \/ CallIsMatched
    \/ ReturnIsMatched

SpecFilter == Init /\ [][NextFilter]_vars

\* strings.Trim(str, "."): without its leading and trailing dots
RECURSIVE TrimDots(_)
TrimDots(str) ==
    IF str = <<>> THEN str
    ELSE IF Head(str) = "." THEN TrimDots(Tail(str))
    ELSE IF str[Len(str)] = "." THEN TrimDots(SubSeq(str, 1, Len(str) - 1))
    ELSE str

\* strings.TrimSpace(str)
RECURSIVE TrimSpace(_)
TrimSpace(str) ==
    IF str = <<>> THEN str
    ELSE IF Head(str) \in {" ", LF} THEN TrimSpace(Tail(str))
    ELSE IF str[Len(str)] \in {" ", LF}
    THEN TrimSpace(SubSeq(str, 1, Len(str) - 1))
    ELSE str

\* strings.Split(str, "."): the pieces between the dots, one piece for ""
RECURSIVE Split(_)
Split(str) ==
    IF \E k \in 1..Len(str) : str[k] = "."
    THEN LET dot == CHOOSE k \in 1..Len(str) :
                        str[k] = "." /\ \A j \in 1..(k - 1) : str[j] # "."
         IN <<SubSeq(str, 1, dot - 1)>> \o Split(SubSeq(str, dot + 1, Len(str)))
    ELSE <<str>>

\* regexSubVersion.FindStringSubmatch(str), ^(\d*)(.*): the longest run of
\* digits str begins with, then everything up to a line feed
regexSubVersion(str) ==
    LET digits == CHOOSE n \in 0..Len(str) :
                      /\ \A k \in 1..n : str[k] \in Digit
                      /\ n < Len(str) => str[n + 1] \notin Digit
        rest == DotStarEnd(str, digits)
    IN <<SubSeq(str, 1, rest), SubSeq(str, 1, digits),
         SubSeq(str, digits + 1, rest)>>

\* the characters in the order of their bytes
CharOrder ==
    <<LF, " ", "-", ".", "0", "1", "2", "3", "4", "5", "6", "7", "8", "9",
      "A", "B", "T", "a", "b", "t", "v">>

\* the place of a character in that order
Ord(c) == CHOOSE k \in 1..Len(CharOrder) : CharOrder[k] = c

\* strings.Compare(a, b)
RECURSIVE Compare(_, _)
Compare(a, b) ==
    IF a = <<>> THEN (IF b = <<>> THEN 0 ELSE -1)
    ELSE IF b = <<>> THEN 1
    ELSE IF Ord(Head(a)) < Ord(Head(b)) THEN -1
    ELSE IF Ord(Head(a)) > Ord(Head(b)) THEN 1
    ELSE Compare(Tail(a), Tail(b))

\* getSubVersionInfo that keeps the case of the suffix
getSubVersionInfoCased(str) ==
    LET vers == regexSubVersion(str)
    IN [number |-> Atoi(TrimSpace(vers[2])),
        suffix |-> TrimSpace(vers[3])]

\* getSubVersionInfo(s)
getSubVersionInfo(str) ==
    LET vers == regexSubVersion(str)
    IN [number |-> Atoi(TrimSpace(vers[2])),
        suffix |-> ToLower(TrimSpace(vers[3]))]

\* getSubVersions(subVersions, count)
getSubVersions(subVersions, count) ==
    [i \in 1..count |->
        IF i <= Len(subVersions)
        THEN getSubVersionInfo(TrimSpace(subVersions[i]))
        ELSE [number |-> 0, suffix |-> <<>>]]

RECURSIVE CompareFrom(_, _, _, _)
\* the loop of CompareVersions from its index i on
CompareFrom(subVersions1, subVersions2, i, count) ==
    IF i > count THEN 0
    ELSE IF subVersions1[i].number < subVersions2[i].number THEN -1
    ELSE IF subVersions1[i].number > subVersions2[i].number THEN 1
    ELSE IF subVersions1[i].suffix # subVersions2[i].suffix
    THEN Compare(subVersions1[i].suffix, subVersions2[i].suffix)
    ELSE CompareFrom(subVersions1, subVersions2, i + 1, count)

\* CompareVersions(version1, version2)
CompareVersions(version1, version2) ==
    LET subVerionStrings1 == Split(TrimDots(version1))
        subVerionStrings2 == Split(TrimDots(version2))
        count == IF Len(subVerionStrings1) < Len(subVerionStrings2)
                 THEN Len(subVerionStrings2) ELSE Len(subVerionStrings1)
        subVersions1 == getSubVersions(subVerionStrings1, count)
        subVersions2 == getSubVersions(subVerionStrings2, count)
    IN CompareFrom(subVersions1, subVersions2, 1, count)

\* the sub-versions versions are written with: none, numbers of one and two
\* digits, numbers with a suffix in either case and after a space, a suffix
\* alone
SubVersionTexts ==
    {<<>>, <<"2">>, <<"1", "0">>, <<"1", "a">>, <<"1", " ", "A">>, <<"b">>}

RECURSIVE Join(_)
\* strings.Join(texts, ".")
Join(texts) ==
    IF texts = <<>> THEN <<>>
    ELSE IF Len(texts) = 1 THEN texts[1]
    ELSE texts[1] \o <<".">> \o Join(Tail(texts))

\* the versions: up to MaxSubVersions sub-versions with dots between them
\* (an empty first or last one gives a leading or trailing dot), as they
\* are or before a dot and a space
VersionTexts ==
    UNION {{Join(texts), Join(texts) \o <<".", " ">>} :
              texts \in UNION {[1..n -> SubVersionTexts] :
                                   n \in 1..MaxSubVersions}}

\* result := CompareVersions(version1, version2)
CallCompareVersions ==
    /\ version.fn = "none"
    /\ \E version1 \in VersionTexts, version2 \in VersionTexts :
           version' = [fn |-> "CompareVersions", version1 |-> version1,
                       version2 |-> version2,
                       result |-> The({CompareVersions(version1, version2)})]
    /\ UNCHANGED notVersionVars

\* the caller has the result
ReturnCompareVersions ==
    /\ version.fn # "none"
    /\ version' = NoVersion
    /\ UNCHANGED notVersionVars

\* the program of a caller of CompareVersions
NextVersions ==
    \/ CallCompareVersions
    \/ ReturnCompareVersions

SpecVersions == Init /\ [][NextVersions]_vars

Next ==
    \/ NextVersions
    \/ NextFilter
    \/ NextWalk
    \/ NextChecksum
    \/ NextGoroutines
    \/ NextStopwatch
    \/ SetRequireDateTimeFieldValid
    \/ CallParseUnixTime
    \/ CallParseDateTime
    \/ CallParseDate
    \/ CallParseTime
    \/ CallIsDateTimeFieldValid
    \/ Return

Spec == Init /\ [][Next]_vars

\* the program of a caller of IsDateTimeFieldValid alone
NextValidator ==
    \/ SetRequireDateTimeFieldValid
    \/ CallIsDateTimeFieldValid
    \/ Return

SpecValidator == Init /\ [][NextValidator]_vars

\* the program of a caller of ParseUnixTime alone
NextUnixTime ==
    \/ SetRequireDateTimeFieldValid
    \/ CallParseUnixTime
    \/ Return

SpecUnixTime == Init /\ [][NextUnixTime]_vars

\* the program of a caller of ParseDateTime alone
NextDateTime ==
    \/ SetRequireDateTimeFieldValid
    \/ CallParseDateTime
    \/ Return

SpecDateTime == Init /\ [][NextDateTime]_vars

\* the program of a caller of the three parsers of dates and times
NextParsers ==
    \/ SetRequireDateTimeFieldValid
    \/ CallParseDateTime
    \/ CallParseDate
    \/ CallParseTime
    \/ Return

SpecParsers == Init /\ [][NextParsers]_vars

\* the program of a caller of the five functions of the parser
NextCalls ==
    \/ SetRequireDateTimeFieldValid
    \/ CallParseUnixTime
    \/ CallParseDateTime
    \/ CallParseDate
    \/ CallParseTime
    \/ CallIsDateTimeFieldValid
    \/ Return

SpecCalls == Init /\ [][NextCalls]_vars


(***************************************************************************)
(* What the claims speak of.                                               *)
(***************************************************************************)
Parsers == {"ParseDateTime", "ParseDate", "ParseTime"}

\* the grammars of a parser, in the order the specification gives them
Grammars(f) ==
    CASE f = "ParseDateTime" -> <<"regexDateTimeHasSep", "regexDateTimeNoSep">>
      [] f = "ParseDate"     -> <<"regexDateHasSep", "regexDateNoSep">>
      [] f = "ParseTime"     -> <<"regexTimeHasSep", "regexTimeNoSep">>

\* the field values a structural match holds for a parser
Captured(f, subs) ==
    CASE f = "ParseDateTime" ->
           [year |-> Atoi(Sub(subs, 1)), month |-> Atoi(Sub(subs, 2)),
            day |-> Atoi(Sub(subs, 3)), hour |-> Atoi(Sub(subs, 4)),
            minute |-> Atoi(Sub(subs, 5)), second |-> Atoi(Sub(subs, 7)),
            nanosecond |-> Atoi(Sub(subs, 9)) * 1000000]
      [] f = "ParseDate" ->
           [year |-> Atoi(Sub(subs, 1)), month |-> Atoi(Sub(subs, 2)),
            day |-> Atoi(Sub(subs, 3)), hour |-> 0, minute |-> 0, second |-> 0,
            nanosecond |-> 0]
      [] f = "ParseTime" ->
           [year |-> 0, month |-> 1, day |-> 1, hour |-> Atoi(Sub(subs, 1)),
            minute |-> Atoi(Sub(subs, 2)), second |-> Atoi(Sub(subs, 4)),
            nanosecond |-> Atoi(Sub(subs, 6)) * 1000000]

\* the calendar's number of days of a month
DaysOfMonth(year, month) ==
    IF month = 2
    THEN (IF year % 4 = 0 /\ (year % 100 # 0 \/ year % 400 = 0) THEN 29 ELSE 28)
    ELSE IF month \in {4, 6, 9, 11} THEN 30 ELSE 31

\* a tuple of fields is calendar-legal
InRange(c) ==
    /\ c.month \in 1..12
    /\ c.hour \in 0..23
    /\ c.minute \in 0..59
    /\ c.second \in 0..59
    /\ c.day \in 1..DaysOfMonth(c.year, c.month)

\* the validation step lets a tuple through
Passes(c) == ~RequireDateTimeFieldValid \/ InRange(c)

\* the timestamp built from a tuple of fields
Built(c) == TimeDate(c.year, c.month, c.day, c.hour, c.minute, c.second, c.nanosecond)

\* what one grammar of a parser yields: Nil, or the timestamp of its match
Yield(f, regex, str) ==
    CASE f = "ParseDateTime" -> ParseDateTimeParse(str, regex)
      [] f = "ParseDate"     -> ParseDateParse(str, regex)
      [] f = "ParseTime"     -> ParseTimeParse(str, regex)

(***************************************************************************)
(* C1: ParseDateTime returns the result of the separated grammar whenever  *)
(* that grammar matches structurally and its fields pass validation, even  *)
(* when the unseparated grammar matches too; it returns the result of the  *)
(* unseparated grammar only when the separated one fails structurally or   *)
(* fails validation; and it returns nil only when both fail.               *)
(***************************************************************************)
C1_SeparatedGrammarFirst ==
    fn = "ParseDateTime" =>
        LET sep   == FindStringSubmatch("regexDateTimeHasSep", s)
            uns   == FindStringSubmatch("regexDateTimeNoSep", s)
            sepOk == sep # <<>> /\ Passes(Captured(fn, sep))
            unsOk == uns # <<>> /\ Passes(Captured(fn, uns))
        IN  /\ sepOk => result = Built(Captured(fn, sep))
            /\ (~sepOk /\ unsOk) => result = Built(Captured(fn, uns))
            /\ (result = Nil) <=> (~sepOk /\ ~unsOk)

\* both grammars match a string with fields in range, on different dates,
\* and the separated grammar's date is returned
C1_Witness ==
    /\ fn = "ParseDateTime"
    /\ RequireDateTimeFieldValid
    /\ LET sep == FindStringSubmatch("regexDateTimeHasSep", s)
           uns == FindStringSubmatch("regexDateTimeNoSep", s)
       IN  /\ sep # <<>> /\ InRange(Captured(fn, sep))
           /\ uns # <<>> /\ InRange(Captured(fn, uns))
           /\ Built(Captured(fn, sep)) # Built(Captured(fn, uns))
           /\ result = Built(Captured(fn, sep))

(***************************************************************************)
(* C2: IsDateTimeFieldValid returns nil if and only if the policy flag is  *)
(* false, or month is in 1..12, hour in 0..23, minute and second in 0..59  *)
(* and day in 1..(the number of days of that month in that year), February *)
(* having 29 days exactly in the years divisible by 4 and not by 100, or   *)
(* divisible by 400.                                                       *)
(***************************************************************************)
C2_ValidatorIffLegal ==
    fn = "IsDateTimeFieldValid" =>
        ((result = Nil) <=> (~RequireDateTimeFieldValid \/ InRange(fields)))

\* 29 February of a year divisible by 400 is accepted with the flag set
C2_Witness ==
    /\ fn = "IsDateTimeFieldValid"
    /\ RequireDateTimeFieldValid
    /\ fields.year = 2000 /\ fields.month = 2 /\ fields.day = 29
    /\ result = Nil

(***************************************************************************)
(* C3: with the policy flag set, in ParseDateTime, ParseDate and ParseTime *)
(* a structural match whose fields are out of range yields nil for that    *)
(* grammar, as no structural match does, and every non-nil result carries  *)
(* exactly the field values of a structural match, all of them in range:   *)
(* it is never a normalized date.                                          *)
(***************************************************************************)
C3_ValidatedBeforeBuilt ==
    (RequireDateTimeFieldValid /\ fn \in Parsers) =>
        LET g  == Grammars(fn)
            m1 == FindStringSubmatch(g[1], s)
            m2 == FindStringSubmatch(g[2], s)
            in1 == m1 # <<>> /\ InRange(Captured(fn, m1))
            in2 == m2 # <<>> /\ InRange(Captured(fn, m2))
        IN  /\ (m1 # <<>> /\ ~in1) => Yield(fn, g[1], s) = Nil
            /\ (m2 # <<>> /\ ~in2) => Yield(fn, g[2], s) = Nil
            /\ result # Nil =>
                  \/ in1 /\ result = Captured(fn, m1)
                  \/ in2 /\ result = Captured(fn, m2)

\* "201022281234": a structural match with month 22 is reported as nil
C3_Witness ==
    /\ fn = "ParseDateTime"
    /\ RequireDateTimeFieldValid
    /\ s = <<"2", "0", "1", "0", "2", "2", "2", "8", "1", "2", "3", "4">>
    /\ FindStringSubmatch("regexDateTimeNoSep", s) # <<>>
    /\ result = Nil

(***************************************************************************)
(* C4: in ParseDateTime and ParseTime, whichever grammar gives the result, *)
(* the result's milliseconds are other than 0 only when the grammar's      *)
(* millisecond group took exactly 3 digits, and they are those digits;     *)
(* when the seconds are followed (after a "." or directly) by 1 or 2       *)
(* digits only, the milliseconds are 0 and the result is the timestamp of  *)
(* the other captured fields, unchanged.                                   *)
(***************************************************************************)
\* the groups of the seconds and of the milliseconds in a parser's grammars
SecondGroup(f) == IF f = "ParseDateTime" THEN 7 ELSE 4
MilliGroup(f) == IF f = "ParseDateTime" THEN 9 ELSE 6

\* the spans of the match a parser's timestamp, when it returns one, comes
\* from: the first grammar's when that grammar yields one, else the second's
Winner(f, str) ==
    LET g == Grammars(f)
    IN  IF Yield(f, g[1], str) # Nil THEN FindStringSubmatchIndex(g[1], str)
        ELSE FindStringSubmatchIndex(g[2], str)

\* how many digits, up to 3, stand at offset e or after a "." at offset e
DigitsAfter(str, e) ==
    LET b == IF IsIn(str, e, DotClass) THEN e + 1 ELSE e
    IN  IF IsDigits(str, b, 3) THEN 3
        ELSE IF IsDigits(str, b, 2) THEN 2
        ELSE IF IsDigits(str, b, 1) THEN 1 ELSE 0

C4_MillisecondsOfThreeDigits ==
    (fn \in {"ParseDateTime", "ParseTime"} /\ result # Nil) =>
        LET loc  == Winner(fn, s)
            c    == Captured(fn, Submatches(s, loc))
            sec  == loc[SecondGroup(fn) + 1]
            ms   == loc[MilliGroup(fn) + 1]
        IN  /\ result.nanosecond # 0 =>
                /\ ms # Unmatched
                /\ ms[2] - ms[1] = 3
                /\ result.nanosecond = Atoi(Slice(s, ms[1], ms[2])) * 1000000
            /\ (sec # Unmatched /\ DigitsAfter(s, sec[2]) \in {1, 2}) =>
                /\ result.nanosecond = 0
                /\ result = Built([c EXCEPT !.nanosecond = 0])

\* "15:34:56.78" alone or after a date: the seconds are kept and the two
\* digits after them are dropped
C4_Witness ==
    /\ fn \in {"ParseDateTime", "ParseTime"}
    /\ parts.ts2 = <<":">>
    /\ parts.second = <<"5", "6">>
    /\ parts.msep = <<".">>
    /\ parts.frac = <<"7", "8">>
    /\ result # Nil
    /\ result.hour = 15 /\ result.minute = 34 /\ result.second = 56
    /\ result.nanosecond = 0

(***************************************************************************)
(* C5: for every string made of prefix noise without a digit, a run of 10  *)
(* digits and suffix noise, ParseUnixTime returns a timestamp whose Unix   *)
(* second is the value of the run; for a run of 13 digits followed by no   *)
(* further digit, the second is the value of the first 10 digits and the   *)
(* milliseconds are the last 3.                                            *)
(***************************************************************************)
HasDigit(str) == \E k \in 1..Len(str) : str[k] \in Digit

C5_SecondRecoveredInNoise ==
    (/\ fn = "ParseUnixTime"
     /\ ~HasDigit(parts.prefix)
     /\ \/ Len(parts.run) = 10
        \/ Len(parts.run) = 13 /\ ~IsDigits(parts.suffix, 0, 1)) =>
        /\ result # Nil
        /\ result.unix = Atoi(SubSeq(parts.run, 1, 10))
        /\ Len(parts.run) = 13 =>
               result.nanosecond = Atoi(SubSeq(parts.run, 11, 13)) * 1000000

(***************************************************************************)
(* C6: ParseUnixTime returns nil if and only if the string holds no        *)
(* decimal digit; otherwise, with L the length of the first run of digits, *)
(* the seconds are the first min(L, 10) digits of the run, and the         *)
(* milliseconds are its digits 11..13 when L >= 13 and 0 when L < 13.      *)
(***************************************************************************)
\* the offset of the first digit of a string that has one
FirstDigit(str) ==
    CHOOSE p \in 0..(Len(str) - 1) :
        str[p + 1] \in Digit /\ \A q \in 1..p : str[q] \notin Digit

\* the length of the run of digits at offset p
RunLength(str, p) ==
    CHOOSE n \in 1..(Len(str) - p) :
        IsDigits(str, p, n) /\ ~IsDigits(str, p, n + 1)

C6_FirstDigitRun ==
    fn = "ParseUnixTime" =>
        /\ (result = Nil) <=> ~HasDigit(s)
        /\ HasDigit(s) =>
             LET p == FirstDigit(s)
                 L == RunLength(s, p)
                 n == IF L < 10 THEN L ELSE 10
             IN  /\ result # Nil
                 /\ result.unix = Atoi(Slice(s, p, p + n))
                 /\ result.nanosecond =
                        IF L >= 13 THEN Atoi(Slice(s, p + 10, p + 13)) * 1000000
                        ELSE 0

(***************************************************************************)
(* C7: ParseDateTime returns nil for every string that holds one date,     *)
(* separated or not, after noise without digits, and after the date less   *)
(* than an hour and a minute: no separator of time fields and at most 3    *)
(* digits.                                                                 *)
(***************************************************************************)
\* the separators the specification gives for each position
DateSeparators == {<<"-">>, <<"_">>, <<".">>}
BoundarySeparators == {<<"-">>, <<"_">>, <<".">>, <<" ">>, <<"T">>}
TimeSeparators == {<<"-">>, <<"_">>, <<".">>, <<":">>}

\* the parts hold a date written in the separated or the unseparated shape
HasDate(in) ==
    /\ Len(in.year) = 4
    /\ \/ in.ds1 \in DateSeparators /\ in.ds2 \in DateSeparators
       \/ in.ds1 = <<>> /\ in.ds2 = <<>> /\ Len(in.month) = 2 /\ Len(in.day) = 2

CountDigits(str) == Cardinality({k \in 1..Len(str) : str[k] \in Digit})

\* the parts hold a date and, after it, less than an hour and a minute
IsDateAlone(in) ==
    /\ HasDate(in)
    /\ ~HasDigit(in.prefix)
    /\ in.bnd \in BoundarySeparators \cup {<<>>}
    /\ in.ts1 = <<>> /\ in.minute = <<>> /\ in.ts2 = <<>> /\ in.second = <<>>
    /\ in.msep = <<>> /\ in.frac = <<>>
    /\ Len(in.hour) + CountDigits(in.suffix) <= 3

Written(in) ==
    [year |-> Atoi(in.year), month |-> Atoi(in.month), day |-> Atoi(in.day),
     hour |-> Atoi(in.hour), minute |-> Atoi(in.minute),
     second |-> Atoi(in.second), nanosecond |-> Atoi(in.frac) * 1000000]

\* the parts are a whole date and time with milliseconds in the separated
\* shape or in the unseparated shape, and nothing else
IsFormatted(in) ==
    /\ in.prefix = <<>> /\ in.suffix = <<>>
    /\ Len(in.year) = 4
    /\ Len(in.month) \in 1..2 /\ Len(in.day) \in 1..2 /\ Len(in.hour) \in 1..2
    /\ Len(in.minute) = 2 /\ Len(in.second) = 2 /\ Len(in.frac) = 3
    /\ \/ /\ in.ds1 \in DateSeparators /\ in.ds2 \in DateSeparators
          /\ in.bnd \in BoundarySeparators
          /\ in.ts1 \in TimeSeparators /\ in.ts2 \in TimeSeparators
          /\ in.msep = <<".">>
       \/ /\ in.ds1 = <<>> /\ in.ds2 = <<>> /\ in.ts1 = <<>> /\ in.ts2 = <<>>
          /\ Len(in.month) = 2 /\ Len(in.day) = 2 /\ Len(in.hour) = 2
          /\ in.bnd \in BoundarySeparators \cup {<<>>}
          /\ in.msep \in {<<>>, <<".">>}

C8_RoundTrip ==
    (fn = "ParseDateTime" /\ IsFormatted(parts) /\ InRange(Written(parts))) =>
        result = Written(parts)

\* 2012-02-29 05:04:06.007 comes back from the unseparated shape
C8_Witness ==
    /\ fn = "ParseDateTime"
    /\ IsFormatted(parts)
    /\ parts.ds1 = <<>>
    /\ Written(parts) = [year |-> 2012, month |-> 2, day |-> 29, hour |-> 5,
                         minute |-> 4, second |-> 6, nanosecond |-> 7000000]
    /\ result = Written(parts)

(***************************************************************************)
(* C9: with the policy flag off, ParseDateTime on a string that matches    *)
(* structurally with a month m in 13..99 returns a timestamp.  As first    *)
(* stated: its year is the captured year plus 1, its month is m modulo 12  *)
(* and the other captured fields are kept.  As the code has it: its year   *)
(* is the captured year plus (m - 1) div 12, its month is                  *)
(* ((m - 1) mod 12) + 1, and the other captured fields are kept when they  *)
(* are in range for that month.                                            *)
(***************************************************************************)
\* the fields of the match ParseDateTime builds its timestamp from
MatchedFields == Captured("ParseDateTime", Submatches(s, Winner("ParseDateTime", s)))

\* ParseDateTime, with the flag off, found a match with a month in 13..99
MonthOverflows ==
    /\ fn = "ParseDateTime"
    /\ ~RequireDateTimeFieldValid
    /\ \/ FindStringSubmatch("regexDateTimeHasSep", s) # <<>>
       \/ FindStringSubmatch("regexDateTimeNoSep", s) # <<>>
    /\ MatchedFields.month \in 13..99

\* C9 as first stated, for other captured fields in range for every month
\* (day 1..28, hour 0..23, minute and second 0..59): the year is the
\* captured year plus 1 and the month is m modulo 12
C9_YearPlusOneMonthModulo ==
    (MonthOverflows /\ InRange([MatchedFields EXCEPT !.year = 1, !.month = 2])) =>
        /\ result # Nil
        /\ result = [MatchedFields EXCEPT !.year = @ + 1, !.month = @ % 12]

\* C9 as the code has it: the year is the captured year plus (m - 1) div 12
\* and the month is ((m - 1) mod 12) + 1
C9_MonthCarriedIntoYears ==
    MonthOverflows =>
        LET c == MatchedFields
            y == c.year + ((c.month - 1) \div 12)
            m == ((c.month - 1) % 12) + 1
        IN  /\ result # Nil
            /\ InRange([c EXCEPT !.year = y, !.month = m]) =>
                   result = [c EXCEPT !.year = y, !.month = m]

\* "201022281234" gives 28 October 2011, 12:34
C9_Witness ==
    /\ MonthOverflows
    /\ s = <<"2", "0", "1", "0", "2", "2", "2", "8", "1", "2", "3", "4">>
    /\ result = [year |-> 2011, month |-> 10, day |-> 28, hour |-> 12,
                 minute |-> 34, second |-> 0, nanosecond |-> 0]

(***************************************************************************)
(* C10: in every structural match of a separated grammar the character in  *)
(* a position of a date separator is one of "-", "_", "."; in the position *)
(* between date and time one of "-", "_", ".", " ", "T"; in a position of  *)
(* a time separator one of "-", "_", ".", ":"; between seconds and         *)
(* milliseconds ".".                                                       *)
(***************************************************************************)
\* the character at an offset, as a string
CharAt(str, i) == <<str[i + 1]>>

\* the character before a group of a match is of a set, when the group
\* took part in the match
Before(str, span, set) == span # Unmatched => CharAt(str, span[1] - 1) \in set

C10_SeparatorsAsSpecified ==
    /\ fn \in {"ParseDateTime", "ParseDate"} =>
         LET loc == FindStringSubmatchIndex(Grammars(fn)[1], s)
         IN  loc # <<>> =>
               /\ Before(s, loc[3], DateSeparators)
               /\ Before(s, loc[4], DateSeparators)
    /\ fn = "ParseDateTime" =>
         LET loc == FindStringSubmatchIndex("regexDateTimeHasSep", s)
         IN  loc # <<>> =>
               /\ Before(s, loc[5], BoundarySeparators)
               /\ Before(s, loc[6], TimeSeparators)
               /\ Before(s, loc[8], TimeSeparators)
               /\ Before(s, loc[10], {<<".">>})
    /\ fn = "ParseTime" =>
         LET loc == FindStringSubmatchIndex("regexTimeHasSep", s)
         IN  loc # <<>> =>
               /\ Before(s, loc[3], TimeSeparators)
               /\ Before(s, loc[5], TimeSeparators)
               /\ Before(s, loc[7], {<<".">>})

(***************************************************************************)
(* C11: ParseDate returns the result of the separated date grammar         *)
(* whenever that grammar matches structurally and its year, month and day  *)
(* pass validation, the result of the unseparated date grammar only when   *)
(* the separated one fails structurally or fails validation, and nil only  *)
(* when both fail; every result has hour, minute, second and nanosecond 0; *)
(* and a date in range written after noise without digits gives that date *)
(* at midnight whatever time, written as the date is, follows it.          *)
(***************************************************************************)
\* what is written after the day of a date
AfterDate(in) ==
    in.bnd \o in.hour \o in.ts1 \o in.minute \o in.ts2 \o in.second \o in.msep
      \o in.frac \o in.suffix

\* after the date the parts hold nothing, or a time written as the date
\* is, with or without separators, whatever its numbers
IsTimeLike(in) ==
    \/ in.bnd \o in.hour \o in.ts1 \o in.minute \o in.ts2 \o in.second
         \o in.msep \o in.frac = <<>>
    \/ /\ in.ds1 # <<>>
       /\ in.bnd \in BoundarySeparators
       /\ in.ts1 \in TimeSeparators
       /\ in.ts2 \in TimeSeparators \cup {<<>>}
       /\ in.msep \in {<<>>, <<".">>}
    \/ /\ in.ds1 = <<>>
       /\ in.bnd \in BoundarySeparators \cup {<<>>}
       /\ in.ts1 = <<>> /\ in.ts2 = <<>>
       /\ in.msep \in {<<>>, <<".">>}

\* the parts hold a date that is the first thing of its line, followed by
\* nothing or a time and, when its fields are separated, by no digit
IsDateFirst(in) ==
    /\ HasDate(in)
    /\ \A k \in 1..Len(in.prefix) : in.prefix[k] \notin Digit \cup {LF}
    /\ IsTimeLike(in)
    /\ in.ds1 # <<>> => ~IsDigits(AfterDate(in), 0, 1)

\* midnight of the date written in the parts
WrittenDate(in) ==
    [year |-> Atoi(in.year), month |-> Atoi(in.month), day |-> Atoi(in.day),
     hour |-> 0, minute |-> 0, second |-> 0, nanosecond |-> 0]

C11_DateAtMidnight ==
    fn = "ParseDate" =>
        LET sep   == FindStringSubmatch("regexDateHasSep", s)
            uns   == FindStringSubmatch("regexDateNoSep", s)
            sepOk == sep # <<>> /\ Passes(Captured(fn, sep))
            unsOk == uns # <<>> /\ Passes(Captured(fn, uns))
        IN  /\ sepOk => result = Built(Captured(fn, sep))
            /\ (~sepOk /\ unsOk) => result = Built(Captured(fn, uns))
            /\ (result = Nil) <=> (~sepOk /\ ~unsOk)
            /\ result # Nil =>
                  /\ result.hour = 0 /\ result.minute = 0
                  /\ result.second = 0 /\ result.nanosecond = 0
            /\ (IsDateFirst(parts) /\ InRange(WrittenDate(parts))) =>
                  result = WrittenDate(parts)

\* "2010-02-23 99:99:99.789" with the flag set: the date at midnight
C11_Witness ==
    /\ fn = "ParseDate"
    /\ RequireDateTimeFieldValid
    /\ IsDateFirst(parts)
    /\ parts.ds1 = <<"-">>
    /\ parts.hour = <<"9", "9">> /\ parts.minute = <<"9", "9">>
    /\ result = [year |-> 2010, month |-> 2, day |-> 23, hour |-> 0,
                 minute |-> 0, second |-> 0, nanosecond |-> 0]

(***************************************************************************)
(* C12: ParseTime returns the result of the separated time grammar         *)
(* whenever that grammar matches structurally and its hour, minute and     *)
(* second pass validation, the result of the unseparated time grammar only *)
(* when the separated one fails structurally or fails validation, and nil  *)
(* only when both fail.  As first stated: every result has year 0, month   *)
(* 1, day 1 and the captured hour, minute, second and millisecond.  As the *)
(* code has it: every result is the timestamp built from year 0, month 1,  *)
(* day 1 and the captured fields, which has these very fields when the     *)
(* captured hour, minute and second are in range, as they are whenever the *)
(* flag is set.                                                            *)
(***************************************************************************)
\* ParseTime gives the results of its grammars in their order
TimeGrammarsInOrder ==
    LET sep   == FindStringSubmatch("regexTimeHasSep", s)
        uns   == FindStringSubmatch("regexTimeNoSep", s)
        sepOk == sep # <<>> /\ Passes(Captured("ParseTime", sep))
        unsOk == uns # <<>> /\ Passes(Captured("ParseTime", uns))
    IN  /\ sepOk => result = Built(Captured("ParseTime", sep))
        /\ (~sepOk /\ unsOk) => result = Built(Captured("ParseTime", uns))
        /\ (result = Nil) <=> (~sepOk /\ ~unsOk)

\* the fields of the match ParseTime builds its timestamp from
MatchedTime == Captured("ParseTime", Submatches(s, Winner("ParseTime", s)))

C12_AnchoredFieldsKept ==
    fn = "ParseTime" =>
        /\ TimeGrammarsInOrder
        /\ result # Nil =>
              /\ result.year = 0 /\ result.month = 1 /\ result.day = 1
              /\ result = MatchedTime

C12_AnchoredThenNormalized ==
    fn = "ParseTime" =>
        /\ TimeGrammarsInOrder
        /\ result # Nil =>
              /\ MatchedTime.year = 0 /\ MatchedTime.month = 1
              /\ MatchedTime.day = 1
              /\ result = Built(MatchedTime)
              /\ RequireDateTimeFieldValid => InRange(MatchedTime)
              /\ InRange(MatchedTime) => result = MatchedTime

\* "15:34:56.789" alone gives 1 January of year 0, 15:34:56.789
C12_Witness ==
    /\ fn = "ParseTime"
    /\ s = <<"1", "5", ":", "3", "4", ":", "5", "6", ".", "7", "8", "9">>
    /\ result = [year |-> 0, month |-> 1, day |-> 1, hour |-> 15,
                 minute |-> 34, second |-> 56, nanosecond |-> 789000000]

(***************************************************************************)
(* C13: no call of ParseUnixTime, ParseDateTime, ParseDate, ParseTime or   *)
(* IsDateTimeFieldValid changes the policy flag, and after whatever calls  *)
(* and changes of the flag came before, what a call returns is what the    *)
(* function gives for its argument under the flag as it stands.            *)
(***************************************************************************)
\* what a function of the parser gives for the arguments of the call in
\* progress
Returned ==
    CASE fn = "ParseUnixTime" -> ParseUnixTime(s)
      [] fn = "ParseDateTime" -> ParseDateTime(s)
      [] fn = "ParseDate"     -> ParseDate(s)
      [] fn = "ParseTime"     -> ParseTime(s)
      [] fn = "IsDateTimeFieldValid" ->
             IsDateTimeFieldValid(fields.year, fields.month, fields.day,
                                  fields.hour, fields.minute, fields.second)

C13_CallsChangeNothing ==
    /\ [][fn' # "none" =>
             RequireDateTimeFieldValid' = RequireDateTimeFieldValid]_vars
    /\ [](fn # "none" => result = Returned)

\* a call of ParseDate after the flag was cleared: month 13 goes through,
\* and the flag is as the caller left it
C13_Witness ==
    /\ fn = "ParseDate"
    /\ ~RequireDateTimeFieldValid
    /\ s = <<"2", "0", "1", "0", "1", "3", "0", "1", "1", "2", "3", "4">>
    /\ result = [year |-> 2011, month |-> 1, day |-> 1, hour |-> 0,
                 minute |-> 0, second |-> 0, nanosecond |-> 0]

(***************************************************************************)
(* C15: Start on a running Stopwatch, Stop on a Stopwatch that is not      *)
(* running and Reset on a running Stopwatch each leave isRunning,          *)
(* startTime, elapsedTime and records as they were.                        *)
(***************************************************************************)
C15_GuardedNoOps ==
    /\ (swCall = "Start" /\ swBefore.isRunning) => sw = swBefore
    /\ (swCall = "Stop" /\ ~swBefore.isRunning) => sw = swBefore
    /\ (swCall = "Reset" /\ swBefore.isRunning) => sw = swBefore

\* Reset on a Stopwatch that runs for the second time and holds a record
C15_Witness ==
    /\ swCall = "Reset"
    /\ swBefore.isRunning
    /\ swBefore.elapsedTime > 0
    /\ swBefore.records # <<>>
    /\ sw = swBefore

(***************************************************************************)
(* C16: the accumulated time of a stopped Stopwatch, which ElapsedTime     *)
(* returns, is the sum of the lengths of the intervals it ran for since it *)
(* was last cleared, Stop then Start resuming; and Reset on a stopped      *)
(* Stopwatch sets the accumulated time to 0.                               *)
(***************************************************************************)
C16_SumOfRunningIntervals ==
    /\ ~sw.isRunning => sw.elapsedTime = ran
    /\ (swCall = "ElapsedTime" /\ ~sw.isRunning) => swResult = ran
    /\ (swCall = "Reset" /\ ~swBefore.isRunning) =>
           /\ sw.elapsedTime = 0
           /\ ran = 0

\* the second Stop, after a pause: the time of both intervals
C16_Witness ==
    /\ swCall = "Stop"
    /\ swBefore.isRunning
    /\ swBefore.elapsedTime > 0
    /\ swBefore.startTime > swBefore.elapsedTime
    /\ sw.elapsedTime > swBefore.elapsedTime
    /\ sw.elapsedTime = ran

(***************************************************************************)
(* C17: Record appends one entry, the total time the Stopwatch ran for,    *)
(* when it is running and nothing when it is not; it returns the entries   *)
(* recorded since the Stopwatch was last cleared, in the order of the      *)
(* calls, each at least the one before it; and what the caller writes into *)
(* the returned slice does not change the stored records.                  *)
(***************************************************************************)
C17_RecordsInOrder ==
    /\ sw.records = laps
    /\ \A i \in 1..Len(sw.records) : \A j \in i..Len(sw.records) :
           sw.records[i] <= sw.records[j]
    /\ swCall = "Record" =>
           /\ ~swResult.written => swResult.elems = laps
           /\ swBefore.isRunning =>
                  /\ Len(sw.records) = Len(swBefore.records) + 1
                  /\ SubSeq(sw.records, 1, Len(swBefore.records)) = swBefore.records
                  /\ sw.records[Len(sw.records)] = ran
           /\ ~swBefore.isRunning => sw.records = swBefore.records

\* the caller has written into the slice of two entries Record returned
C17_Witness ==
    /\ swCall = "Record"
    /\ swResult.written
    /\ Len(sw.records) = 2
    /\ sw.records[1] < sw.records[2]
    /\ swResult.elems # sw.records

(***************************************************************************)
(* C18: immediately after Restart, whatever the Stopwatch was before, it   *)
(* is running, its accumulated and its elapsed time are 0 and it has no    *)
(* records.                                                                *)
(***************************************************************************)
C18_RestartClears ==
    swCall = "Restart" =>
        /\ sw.isRunning
        /\ sw.elapsedTime = 0
        /\ elapsed(sw, now) = 0
        /\ sw.records = <<>>

\* Restart of a stopped Stopwatch with accumulated time and records
C18_Witness ==
    /\ swCall = "Restart"
    /\ ~swBefore.isRunning
    /\ swBefore.elapsedTime > 0
    /\ swBefore.records # <<>>
    /\ sw.isRunning

(***************************************************************************)
(* C19: Elapsing returns the error of the task as it is, and the time from *)
(* its Restart to the end of the task; when it has returned, the Stopwatch *)
(* is not running and its elapsed time is at least the returned duration.  *)
(***************************************************************************)
C19_ElapsingTimesTheTask ==
    swCall = "Elapsing" =>
        /\ swResult.err = swResult.task
        /\ swResult.duration = swResult.took
        /\ swResult.duration <= ran
        /\ ~sw.isRunning
        /\ elapsed(sw, now) >= swResult.duration

\* a task that fails after a while, on a Stopwatch that was running
C19_Witness ==
    /\ swCall = "Elapsing"
    /\ swBefore.isRunning
    /\ swResult.err # Nil
    /\ swResult.duration > 0
    /\ sw.elapsedTime > swResult.duration

(***************************************************************************)
(* C14: Stopwatch is thread safe.  Whatever the goroutines call and        *)
(* however their steps interleave, no goroutine is about to write a field  *)
(* of the Stopwatch that another is about to read or write; and a          *)
(* goroutine about to read a field holds s.lock, one about to write a      *)
(* field holds it for writing.                                             *)
(***************************************************************************)
\* the fields the next step of a goroutine reads
Reads(g) ==
    CASE At(g, "IsRunning", "read") -> {"isRunning"}
      [] At(g, "Start", "body") -> {"isRunning"}
      [] At(g, "Stop", "body") ->
             IF sw.isRunning THEN {"isRunning", "startTime", "elapsedTime"}
             ELSE {"isRunning"}
      [] At(g, "Restart", "stop") -> {"startTime", "elapsedTime"}
      [] At(g, "Restart", "reset") -> {"records"}
      [] At(g, "Reset", "body") ->
             IF sw.isRunning THEN {"isRunning"} ELSE {"isRunning", "records"}
      [] At(g, "Record", "load") ->
             IF sw.isRunning
             THEN {"isRunning", "startTime", "elapsedTime", "records"}
             ELSE {"isRunning"}
      [] At(g, "Record", "copy") -> {"records"}
      [] At(g, "ElapsedTime", "read") ->
             IF sw.isRunning THEN {"isRunning", "startTime", "elapsedTime"}
             ELSE {"isRunning", "elapsedTime"}
      [] OTHER -> {}

\* the fields the next step of a goroutine writes
Writes(g) ==
    CASE At(g, "Start", "body") ->
             IF sw.isRunning THEN {} ELSE {"isRunning", "startTime"}
      [] At(g, "Stop", "body") ->
             IF sw.isRunning THEN {"isRunning", "elapsedTime"} ELSE {}
      [] At(g, "Restart", "stop") -> {"isRunning", "elapsedTime"}
      [] At(g, "Restart", "reset") -> {"elapsedTime", "records"}
      [] At(g, "Restart", "start") -> {"isRunning", "startTime"}
      [] At(g, "Reset", "body") ->
             IF sw.isRunning THEN {} ELSE {"elapsedTime", "records"}
      [] At(g, "Record", "store") -> {"records"}
      [] OTHER -> {}

C14_ThreadSafe ==
    /\ \A g \in Goroutines : \A h \in Goroutines \ {g} :
           Writes(g) \cap (Reads(h) \cup Writes(h)) = {}
    /\ \A g \in Goroutines :
           /\ Reads(g) # {} => (lock.writer = g \/ g \in lock.readers)
           /\ Writes(g) # {} => lock.writer = g

\* C20: whenever GetFileChecksum calls headerReadyHandler, its second
\* argument (the file has ended) is true if and only if headerSize is greater
\* than or equal to the length of the file, whatever the length of the buffer
\* that validateArguments accepted
C20_EndedIffHeaderCoversFile ==
    \A i \in 1..Len(checksum.headerReady) :
        checksum.headerReady[i].fullIsReady
            <=> checksum.headerSize >= checksum.size

\* the four cases in which the arguments of GetFileChecksum are refused
Refused(c) ==
    \/ c.headerReadyHandler = "nil" /\ c.fullReadyHandler = "nil"
    \/ c.calculator = "nil"
    \/ c.headerReadyHandler # "nil" /\ c.headerSize <= 0
    \/ c.headerReadyHandler # "nil" /\ c.buf.len < c.headerSize

CallsOf(callback) ==
    {i \in 1..Len(checksum.calls) : checksum.calls[i] = callback}

\* each handler is called at most once, fullReadyHandler after
\* headerReadyHandler, never after headerReadyHandler(info, true), and a nil
\* handler never
HandlersInOrder ==
    /\ Cardinality(CallsOf("headerReadyHandler")) <= 1
    /\ Cardinality(CallsOf("fullReadyHandler")) <= 1
    /\ \A i \in CallsOf("headerReadyHandler") :
           \A j \in CallsOf("fullReadyHandler") : i < j
    /\ (\E i \in 1..Len(checksum.headerReady) :
            checksum.headerReady[i].fullIsReady)
           => CallsOf("fullReadyHandler") = {}
    /\ checksum.headerReadyHandler = "nil"
           => CallsOf("headerReadyHandler") = {}
    /\ checksum.fullReadyHandler = "nil" => CallsOf("fullReadyHandler") = {}
    /\ checksum.calculator = "nil" => CallsOf("calculator") = {}

\* an error of a callback ends the run with that error, the failed call
\* being the last
ErrorEndsRun ==
    \A callback \in {"calculator", "headerReadyHandler", "fullReadyHandler"} :
        checksum.err = callback =>
            /\ checksum.at = "done"
            /\ checksum.calls # <<>>
            /\ checksum.calls[Len(checksum.calls)] = callback

\* a run that returned nil for a file longer than the header, with a
\* fullReadyHandler, called it once and after every call of the calculator
FullReadyLast ==
    (/\ checksum.at = "done"
     /\ checksum.err = "nil"
     /\ checksum.size > checksum.headerSize
     /\ checksum.fullReadyHandler # "nil")
        => /\ Cardinality(CallsOf("fullReadyHandler")) = 1
           /\ checksum.calls[Len(checksum.calls)] = "fullReadyHandler"

\* C22: in every run of GetFileChecksum each handler is called at most once,
\* fullReadyHandler never before headerReadyHandler and not at all after
\* headerReadyHandler(info, true), a nil handler never; a run that returns
\* nil for a file longer than the header with a fullReadyHandler has called
\* it exactly once, after the last call of the calculator; an error of a
\* callback ends the run with that error and no further callback
C22_HandlersOnceInOrder ==
    /\ HandlersInOrder
    /\ ErrorEndsRun
    /\ FullReadyLast

\* C28: GetFileChecksum terminates: a call that validateArguments accepted
\* and that opened its file eventually returns, the calls with a buffer of
\* length 0 and no headerReadyHandler among them
C28_Terminates ==
    (checksum.at \in {"header", "rest"}) ~> (checksum.at = "done")

RECURSIVE Bytes(_)
\* the places in the file of the bytes of the slices the calculator got
Bytes(slices) ==
    IF slices = <<>> THEN <<>>
    ELSE [i \in 1..(slices[1][2] - slices[1][1]) |-> slices[1][1] + i - 1]
             \o Bytes(Tail(slices))

\* the places of the first n bytes of a file
FirstBytes(n) == [i \in 1..n |-> i - 1]

\* C29: in a run of GetFileChecksum that returned nil and called
\* fullReadyHandler, the slices the calculator got, one after the other, are
\* the file: every byte once and in its order; and when headerReadyHandler
\* is called the calculator has got the first min(headerSize, length of the
\* file) bytes and no more
C29_EveryByteOnce ==
    /\ (checksum.at = "done" /\ checksum.err = "nil"
            /\ checksum.fullReady # <<>>)
           => Bytes(checksum.calculated) = FirstBytes(checksum.size)
    /\ \A i \in 1..Len(checksum.headerReady) :
           Bytes(checksum.headerReady[i].calculated)
               = FirstBytes(Least(checksum.headerSize, checksum.size))

\* C29: a run over a file longer than its buffer, the buffer longer than the
\* header, that called both handlers and returned nil
C29_Witness ==
    /\ checksum.at = "done"
    /\ checksum.err = "nil"
    /\ checksum.headerReady # <<>>
    /\ checksum.fullReady # <<>>
    /\ checksum.headerSize < checksum.buf.len
    /\ checksum.buf.len < checksum.size
    /\ Len(checksum.calculated) >= 3

\* C23: ShouldQuitForNonRecursive returns false whenever Recursive is true;
\* when Recursive is false the first call on a WalkOption returns false and
\* every later call on it returns true
C23_QuitAfterFirstAsk ==
    walk.fn = "ShouldQuitForNonRecursive" =>
        walk.quit = (~walk.option.Recursive /\ walk.asked > 1)

\* C23: a WalkOption that is not recursive was asked a third time, by its
\* caller, and said to quit
C23_Witness ==
    /\ walk.fn = "ShouldQuitForNonRecursive"
    /\ ~walk.option.Recursive
    /\ walk.asked = 3
    /\ walk.quit

RECURSIVE FilesOf(_)
\* the sizes of the files directly in a directory
FilesOf(entries) ==
    IF entries = <<>> THEN <<>>
    ELSE (IF Head(entries).kind = "file" THEN <<Head(entries).size>>
                                         ELSE <<>>)
             \o FilesOf(Tail(entries))

RECURSIVE Sum(_)
\* the sum of a sequence of numbers
Sum(sizes) == IF sizes = <<>> THEN 0 ELSE Head(sizes) + Sum(Tail(sizes))

\* C24: with a WalkOption whose Recursive is false, every call of
\* GetDirStatistics(dir, option) reports DirCount 1, FileCount the number of
\* the files directly in dir, TotalSize the sum of their sizes, and a nil
\* error, whatever the order of files and subdirectories in dir, and also
\* when the option was passed to an earlier call
C24_OnlyTheDirItself ==
    (walk.fn = "GetDirStatistics" /\ walk.given /\ ~walk.option.Recursive) =>
        /\ walk.stat = [DirCount |-> 1,
                        FileCount |-> Len(FilesOf(walk.dir)),
                        TotalSize |-> Sum(FilesOf(walk.dir))]
        /\ walk.err = "nil"

\* whether a name, in lower case unless the Filter is case sensitive,
\* matches one of the patterns of a list
MatchesAny(patterns, f, name) ==
    LET filename == IF f.CaseSensitive THEN name ELSE ToLower(name)
    IN \E i \in 1..Len(patterns) :
           matchPattern(patterns[i], filename, Ext(filename))

\* C25: Filter.IsMatched returns the first reason that applies, in this
\* order: ErrReasonIsDir for a directory; ErrReasonMinSize when MinFileSize
\* > 0 and the size is less; ErrReasonMaxSize when MaxFileSize > 0 and the
\* size is more; ErrReasonInExclude when the name matches a pattern of
\* Exclude, whether or not it matches one of Include; nil when it matches a
\* pattern of Include; ErrReasonNotInInclude otherwise; and every reason it
\* returns satisfies IsRefusedReason
C25_FirstReasonThatApplies ==
    filter.fn = "IsMatched" =>
        LET f == filter.f
            info == filter.fileInfo
        IN /\ info.isDir => filter.err = ErrReasonIsDir
           /\ (~info.isDir /\ f.MinFileSize > 0 /\ info.size < f.MinFileSize)
                  => filter.err = ErrReasonMinSize
           /\ (/\ ~info.isDir
               /\ ~(f.MinFileSize > 0 /\ info.size < f.MinFileSize)
               /\ f.MaxFileSize > 0 /\ info.size > f.MaxFileSize)
                  => filter.err = ErrReasonMaxSize
           /\ (/\ ~info.isDir
               /\ ~(f.MinFileSize > 0 /\ info.size < f.MinFileSize)
               /\ ~(f.MaxFileSize > 0 /\ info.size > f.MaxFileSize))
                  => filter.err =
                         IF MatchesAny(f.Exclude, f, info.name)
                         THEN ErrReasonInExclude
                         ELSE IF MatchesAny(f.Include, f, info.name)
                         THEN "nil"
                         ELSE ErrReasonNotInInclude
           /\ filter.err # "nil" => IsRefusedReason(filter.err)

\* C25: a file within the limits of size whose name matches a pattern of
\* Exclude and one of Include was refused for the first
C25_Witness ==
    /\ filter.fn = "IsMatched"
    /\ ~filter.fileInfo.isDir
    /\ filter.f.MinFileSize > 0
    /\ filter.f.MaxFileSize > 0
    /\ MatchesAny(filter.f.Exclude, filter.f, filter.fileInfo.name)
    /\ MatchesAny(filter.f.Include, filter.f, filter.fileInfo.name)
    /\ filter.err = ErrReasonInExclude

\* how many digits a text begins with
LeadingDigits(str) ==
    Cardinality({n \in 1..Len(str) : \A k \in 1..n : str[k] \in Digit})

\* a sub-version as it is to be read: its leading number, 0 without one, and
\* what follows it, in lower case and without the spaces around it
ReadSubVersion(text) ==
    LET str == TrimSpace(text)
        n == LeadingDigits(str)
    IN [number |-> DigitsValue(SubSeq(str, 1, n)),
        suffix |-> ToLower(TrimSpace(SubSeq(str, n + 1, Len(str))))]

\* the sub-versions of a version, its leading and trailing dots trimmed,
\* made as long as count with sub-versions of number 0 and no suffix
ReadVersion(text, count) ==
    LET texts == Split(TrimDots(text))
    IN [i \in 1..count |->
           IF i <= Len(texts) THEN ReadSubVersion(texts[i])
           ELSE [number |-> 0, suffix |-> <<>>]]

\* -1, 0 or 1 as two lists of sub-versions of one length compare from the
\* left, the number before the suffix
SignOfLists(a, b) ==
    LET differ == {i \in 1..Len(a) : a[i] # b[i]}
    IN IF differ = {} THEN 0
       ELSE LET i == CHOOSE k \in differ : \A j \in differ : k <= j
            IN IF a[i].number < b[i].number THEN -1
               ELSE IF a[i].number > b[i].number THEN 1
               ELSE Compare(a[i].suffix, b[i].suffix)

\* the number of sub-versions of the longer of two versions
LongerOf(text1, text2) ==
    LET n1 == Len(Split(TrimDots(text1)))
        n2 == Len(Split(TrimDots(text2)))
    IN IF n1 < n2 THEN n2 ELSE n1

FitsAt(regex, str, p) ==
    CASE regex = "regexDateTimeHasSep" ->
           \E i \in 1..8 : DateTimeHasSepFits(str, p, DateTimeWidths[i])
      [] regex = "regexDateTimeNoSep" ->
           \E i \in 1..2 : DateTimeNoSepFits(str, p, BoundaryWidths[i])
      [] regex = "regexDateHasSep" ->
           \E i \in 1..4 : SepDateAt(str, p, DateWidths[i][1], DateWidths[i][2])
      [] regex = "regexDateNoSep" -> IsDigits(str, p, 8)
      [] regex = "regexTimeHasSep" ->
           \E i \in 1..2 : SepTimeAt(str, p, OneOrTwo[i])
      [] regex = "regexTimeNoSep" -> IsDigits(str, p, 4)

\* the candidates of a grammar in a string: the offsets, after a prefix
\* without line feed, at which it fits
Candidates(regex, str) ==
    {p \in 0..Len(str) :
        /\ \A k \in 1..p : str[k] # LF
        /\ FitsAt(regex, str, p)}

\* what a grammar of a parser gives on the string of the call: the
\* timestamp of its match when there is one and its fields pass validation
OfGrammar(i) ==
    LET subs == FindStringSubmatch(Grammars(fn)[i], s)
    IN IF subs = <<>> THEN Nil
       ELSE LET captured == Captured(fn, subs)
            IN IF Passes(captured) THEN Built(captured) ELSE Nil

\* C27: each grammar considers its leftmost structural match only, the one
\* with the shortest prefix: ParseDateTime, ParseDate and ParseTime return
\* what the first grammar gives on that match when its fields pass
\* validation, else what the second gives on its own, else nil, whatever
\* later candidates the string holds
C27_LeftmostCandidateOnly ==
    fn \in Parsers =>
        /\ \A i \in 1..2 :
               LET regex == Grammars(fn)[i]
                   loc == FindStringSubmatchIndex(regex, s)
                   candidates == Candidates(regex, s)
               IN IF candidates = {} THEN loc = <<>>
                  ELSE /\ loc # <<>>
                       /\ loc[2][1] \in candidates
                       /\ \A p \in candidates : loc[2][1] <= p
        /\ LET first == OfGrammar(1)
           IN result = IF first # Nil THEN first ELSE OfGrammar(2)

\* C27: ParseDateTime returned nil for a string whose first separated date
\* and time is out of range although a later one in it is in range
C27_Witness ==
    /\ fn = "ParseDateTime"
    /\ RequireDateTimeFieldValid
    /\ result = Nil
    /\ LET loc == FindStringSubmatchIndex("regexDateTimeHasSep", s)
       IN /\ loc # <<>>
          /\ ~InRange(Captured(fn, Submatches(s, loc)))
          /\ \E p \in Candidates("regexDateTimeHasSep", s) :
                 /\ p > loc[2][1]
                 /\ InRange(Captured(fn, Submatches(s,
                                regexDateTimeHasSepAt(s, p))))

(***************************************************************************)
(* C30: no method of Stopwatch asks for s.lock while it holds it, the task *)
(* of Elapsing runs with the lock not held by its goroutine, a goroutine   *)
(* that has returned from its call holds nothing, and whenever a goroutine *)
(* is inside a call some goroutine inside a call can take its next step;   *)
(* and every call that has begun, one made by the task of an Elapsing      *)
(* among them, returns: the calls never block one another for good.        *)
(***************************************************************************)
Holds(g) == lock.writer = g \/ lock.pending = g \/ g \in lock.readers

NoLockTwice ==
    \A g \in Goroutines :
        pc[g].at \in {"Lock", "RLock"} => ~Holds(g)

TaskHoldsNoLock ==
    \A g \in Goroutines :
        (pc[g] = Idle \/ At(g, "Elapsing", "task")) => ~Holds(g)

SomeStepEnabled ==
    (\E g \in Goroutines : pc[g] # Idle)
        => \E g \in Goroutines : pc[g] # Idle /\ ENABLED Step(g)

C30_LocksNeverNest == NoLockTwice /\ TaskHoldsNoLock /\ SomeStepEnabled

C30_NoDeadlock ==
    /\ []C30_LocksNeverNest
    /\ \A g \in Goroutines : (pc[g] # Idle) ~> (pc[g] = Idle)

\* C30 witness: a method called by the task of an Elapsing waits for the
\* lock that another goroutine holds as the writer, inside its own Elapsing
C30_Witness ==
    \E g, h \in Goroutines :
        /\ g # h
        /\ pc[g].outer = "task"
        /\ pc[g].at \in {"Lock", "RLock"}
        /\ lock.writer = h
        /\ pc[h].outer = "Elapsing"

====
